---- MODULE Spec2Model ----
(***************************************************************************)
(* Model of the nested page export of coda-md-export:                      *)
(*   PageHierarchyService.discoverPages / buildHierarchy / getFlatPageList *)
(*   NestedExportService.exportNestedPages / exportAllPagesOptimized /     *)
(*   pollAndFetchContent / retryOperation / combineExportedPages           *)
(* Every await on a remote call is a point where another task may run;     *)
(* code between two awaits is one atomic step (single-threaded event loop).*)
(***************************************************************************)
EXTENDS Integers, Sequences, FiniteSets, TLC

\* ------------------------------------------------------------------ bounds
NPages == 4
MaxRuns == 2
MaxDepthSetting == 2
MaxExportDepth == 1
MaxFaults == 1
MaxBroken == 1
MaxTreeDepth == 5
MaxClock == 12
MaxMarker == 2
MaxRetryArg == 4
MaxOps == 5
MaxClears == 1
MaxSingleCalls == 2
MaxMillis == 610000

Pages == 1..NPages
RunIds == 1..MaxRuns
RootPage == 1

\* ------------------------------------------------------- program constants
Unlimited == -1
CircularName == "(Circular Reference)"
NotConfiguredError == "API key not configured"
RemoteError == "Remote error"
NoLinkError == "Export completed but no download link provided"
ExportFailedError == "Export failed"
TimedOutError == "Export timed out after 60 attempts"
FetchFailedError == "Failed to fetch content: 500"
SubmitPrefix == "Failed to submit: "
maxAttempts == 60
maxRetries == 3
baseDelay == 1000
pollInterval == 2000
settleDelay == 3000
FiveMinutes == 5
TenMinutes == 10
NoMarker == 0
maxPollAttempts == 60
defaultCacheDuration == 300000
StartFailedPrefix == "Failed to start export: "
StatusFailedPrefix == "Status check failed: "
FetchPrefix == "Failed to fetch content: "
DeliverError == "Failed to deliver"

PageName(p) == <<"Root", "Alpha", "Beta", "Gamma", "Delta", "Epsilon">>[p]
Body(p) == <<"# Root", "# Alpha", "# Beta", "# Gamma", "# Delta", "# Epsilon">>[p]

\* --------------------------------------------- remote page graphs (inputs)
NoKids == [p \in Pages |-> <<>>]
GSingle == NoKids
GTwoKids == [NoKids EXCEPT ![1] = <<2, 3>>]
GChain == [NoKids EXCEPT ![1] = <<2>>, ![2] = <<3>>]
GDeep == [NoKids EXCEPT ![1] = <<2>>, ![2] = <<3>>, ![3] = <<4>>]
GCycle == [NoKids EXCEPT ![1] = <<2>>, ![2] = <<1>>]
GSelf == [NoKids EXCEPT ![1] = <<1>>]
GDup == [NoKids EXCEPT ![1] = <<2, 2>>]
GDiamond == [NoKids EXCEPT ![1] = <<2, 3>>, ![2] = <<4>>, ![3] = <<4>>]
GShared == [NoKids EXCEPT ![1] = <<2, 3>>, ![2] = <<3>>]
GBack == [NoKids EXCEPT ![1] = <<2, 3>>, ![2] = <<4>>, ![4] = <<1, 3>>]

DiscoverGraphs ==
  {GSingle, GTwoKids, GChain, GDeep, GCycle, GSelf, GDup, GDiamond, GShared, GBack}
ExportGraphs == {GSingle, GTwoKids, GChain, GCycle, GDup, GShared}

ConfigOk == [isConfigured |-> TRUE, apiKey |-> "key"]
ConfigNone == [isConfigured |-> FALSE, apiKey |-> ""]
ConfigNoKey == [isConfigured |-> TRUE, apiKey |-> ""]
Configs == {ConfigOk, ConfigNone, ConfigNoKey}

JobKinds == {"healthy", "slow", "failed", "noLink", "badLink"}

DepthSettings == (0..MaxDepthSetting) \cup {Unlimited}
ExportDepths == (0..MaxExportDepth) \cup {Unlimited}

\* --------------------------------------------------------------- variables
VARIABLES
  graph,          \* remote: child references of every page
  pageBody,       \* remote: markdown an export of the page produces
  updatedAt,      \* remote: updatedAt of every page (NoMarker = absent)
  config,         \* storage: the stored configuration
  faults,         \* number of transient remote failures so far
  faultLimit,     \* how many such responses the remote may give
  jobKind,        \* remote: how an export job of each page behaves
  brokenLimit,    \* how many pages the remote may be unable to export
  remoteJobs,     \* remote: export jobs by id
  broken,         \* remote: pages whose export cannot be started
  runLimit,       \* how many calls of the entry point are made
  overlap,        \* whether a call may be made while another is running
  mode,           \* "export": exportNestedPages is called, "discover": discoverPages
  now,            \* clock, in minutes
  nextExportId,   \* remote: next export job id
  contentCache,   \* NestedExportService.contentCache
  exportJobCache, \* NestedExportService.exportJobCache
  phase,          \* per call: position of the call
  depthArg,       \* per call: settings.depth / maxDepth
  discovery,      \* per call: "none", "running", "returned" or "rejected"
  visited,        \* per call: the visited set of discoverPages
  tree,           \* per call: nodes built so far, by path
  pageCount,      \* per call: what discoverPages returned
  calls,          \* per call: log of remote calls issued
  allPages,       \* per call: getFlatPageList(hierarchy)
  subIdx,         \* per call: index of the page being submitted
  subPc,          \* per call: which await of the submission loop is pending
  subAttempt,     \* per call: attempt of retryOperation around beginPageExport
  subMarker,      \* per call: pageUpdatedAt of the page being submitted
  jobs,           \* per call: jobs[] of exportAllPagesOptimized
  failed,         \* per call: failed[] of exportAllPagesOptimized
  successful,     \* per call: successful map of exportAllPagesOptimized
  outcome,        \* per call: what happened to every flattened node
  served,         \* per call: what each node's submission step found in the content cache
  doneOrder,      \* per call: the jobs in the order their workflows settled
  result,         \* per call: what the entry point returned
  progress,       \* per call: the counters of exportAllPagesOptimized and the events given to onProgress
  retry,          \* one call of retryOperation: its arguments, loop state and log
  limCategory,    \* rate limiter: the category that is looked at
  limGen,         \* rate limiter: how many times clearQueue replaced the category's limiter
  limReservoir,   \* rate limiter: reservoir of the category's current limiter
  limAdmitted,    \* rate limiter: operations admitted since the last reservoir refresh
  limOps,         \* rate limiter: every scheduled operation, its limiter and its status
  exportCache,    \* ExportService.exportCache, by page
  sClock,         \* ExportService: Date.now(), in milliseconds
  sUrlShape,      \* remote: what the download links of finished exports look like
  sRemote,        \* remote: the export job ExportService is waiting for, and the next job id
  single,         \* ExportService: the call of exportPage / exportToClipboard being served
  sLog            \* ExportService: the remote calls and fetches of the call being served

envVars == <<graph, pageBody, updatedAt, config, faults, faultLimit, jobKind, brokenLimit,
             remoteJobs, broken, runLimit, overlap, mode, now, nextExportId>>
cacheVars == <<contentCache, exportJobCache>>
discVars == <<depthArg, discovery, visited, tree, pageCount>>
subVars == <<allPages, subIdx, subPc, subAttempt, subMarker>>
pollVars == <<jobs, failed, successful, outcome, served, doneOrder>>
limVars == <<limCategory, limGen, limReservoir, limAdmitted, limOps>>
sglVars == <<exportCache, sClock, sUrlShape, sRemote, single, sLog>>
auxVars == <<retry, limVars, sglVars>>
exportVars == <<envVars, cacheVars, discVars, subVars, pollVars, phase, calls, result, progress>>
vars == <<exportVars, auxVars>>

\* ------------------------------------------------------------ small helpers
Max(a, b) == IF a >= b THEN a ELSE b
RootPath == <<0>>
NoResult == [kind |-> "none"]
NoProgress == [submitted |-> 0, completed |-> 0, events |-> <<>>]
NoCount == [totalPages |-> 0, byDepth |-> <<>>, maxDepth |-> 0]
EmptyMap == [p \in {} |-> ""]
MapSet(m, k, v) == [x \in (DOMAIN m) \cup {k} |-> IF x = k THEN v ELSE m[x]]
MapDelete(m, k) == [x \in (DOMAIN m) \ {k} |-> m[x]]

ChildPaths(t, path) == [i \in 1..t[path].kids |-> Append(path, i)]

\* --------------------------------------------------- PageHierarchyService
\* mutant of shouldRecurse: off by one
shouldRecurseInclusive(maxDepthArg, currentDepth) ==
  maxDepthArg = Unlimited \/ currentDepth <= maxDepthArg

\* the recursion test of buildHierarchy
shouldRecurse(maxDepthArg, currentDepth) ==
  maxDepthArg = Unlimited \/ currentDepth < maxDepthArg

Call(op, ph, path, pageId, depth, n, k) ==
  [op |-> op, phase |-> ph, path |-> path, pageId |-> pageId, depth |-> depth,
   n |-> n, k |-> k]
GetPageCall(ph, path, pageId, depth) == Call("GetPage", ph, path, pageId, depth, 0, 0)

\* mutant of BuildHierarchyEnter: the visited set is not consulted
BuildHierarchyEnterNoCheck(vis, pageId, currentDepth) ==
  [pageId |-> pageId, name |-> "", depth |-> currentDepth, kids |-> 0, fetching |-> TRUE]

\* buildHierarchy from its entry to its first await: the node it stands for
\* is a placeholder leaf (already visited) or a node whose GetPage is pending
BuildHierarchyEnter(vis, pageId, currentDepth) ==
  IF pageId \in vis
    THEN [pageId |-> pageId, name |-> CircularName, depth |-> currentDepth,
          kids |-> 0, fetching |-> FALSE]
    ELSE [pageId |-> pageId, name |-> "", depth |-> currentDepth,
          kids |-> 0, fetching |-> TRUE]

\* page.children.map(...): the children enter buildHierarchy one after the
\* other, in reference order, sharing the visited set
RECURSIVE EnterChildren(_, _, _, _, _)
\* mutant of EnterChildren: the children are taken from the last reference to
\* the first
RECURSIVE EnterChildrenReversed(_, _, _, _, _)
EnterChildrenReversed(s, path, refs, currentDepth, i) ==
  IF i > Len(refs) THEN s
  ELSE LET child == refs[Len(refs) + 1 - i]
           cpath == Append(path, i)
           node == BuildHierarchyEnter(s.visited, child, currentDepth + 1)
           s2 == [tree |-> MapSet(s.tree, cpath, node),
                  visited |-> s.visited \cup {child},
                  calls |-> IF node.fetching
                              THEN s.calls \cup
                                   {GetPageCall("discovery", cpath, child, currentDepth + 1)}
                              ELSE s.calls]
       IN EnterChildrenReversed(s2, path, refs, currentDepth, i + 1)

EnterChildren(s, path, refs, currentDepth, i) ==
  IF i > Len(refs) THEN s
  ELSE LET child == refs[i]
           cpath == Append(path, i)
           node == BuildHierarchyEnter(s.visited, child, currentDepth + 1)
           s2 == [tree |-> MapSet(s.tree, cpath, node),
                  visited |-> s.visited \cup {child},
                  calls |-> IF node.fetching
                              THEN s.calls \cup
                                   {GetPageCall("discovery", cpath, child, currentDepth + 1)}
                              ELSE s.calls]
       IN EnterChildren(s2, path, refs, currentDepth, i + 1)

\* countPages of discoverPages: a walk of the tree from the root
RECURSIVE countPages(_, _, _)
RECURSIVE countChildren(_, _, _, _)
\* mutant of countPages: placeholder leaves are not counted
countPagesSkipPlaceholders(t, path, acc) ==
  LET d == t[path].depth
      old == IF d \in DOMAIN acc.byDepth THEN acc.byDepth[d] ELSE 0
      acc1 == [totalPages |-> acc.totalPages + 1,
               byDepth |-> MapSet(acc.byDepth, d, old + 1),
               maxDepth |-> Max(acc.maxDepth, d)]
  IN IF t[path].name = CircularName THEN acc ELSE countChildren(t, path, 1, acc1)

countPages(t, path, acc) ==
  LET d == t[path].depth
      old == IF d \in DOMAIN acc.byDepth THEN acc.byDepth[d] ELSE 0
      acc1 == [totalPages |-> acc.totalPages + 1,
               byDepth |-> MapSet(acc.byDepth, d, old + 1),
               maxDepth |-> Max(acc.maxDepth, d)]
  IN countChildren(t, path, 1, acc1)
countChildren(t, path, i, acc) ==
  IF i > t[path].kids THEN acc
  ELSE countChildren(t, path, i + 1, countPages(t, Append(path, i), acc))

PageCountOf(t) ==
  countPages(t, RootPath, [totalPages |-> 0, byDepth |-> EmptyMap, maxDepth |-> 0])

\* getFlatPageList: breadth-first, with a queue
RECURSIVE FlatLoop(_, _, _)
FlatLoop(t, queue, res) ==
  IF queue = <<>> THEN res
  ELSE FlatLoop(t, Tail(queue) \o ChildPaths(t, Head(queue)), Append(res, Head(queue)))

\* mutant of getFlatPageList: depth-first, the children go to the front of the queue
RECURSIVE FlatLoopDepthFirst(_, _, _)
FlatLoopDepthFirst(t, queue, res) ==
  IF queue = <<>> THEN res
  ELSE FlatLoopDepthFirst(t, ChildPaths(t, Head(queue)) \o Tail(queue), Append(res, Head(queue)))
getFlatPageListDepthFirst(t) == FlatLoopDepthFirst(t, <<RootPath>>, <<>>)

getFlatPageList(t) == FlatLoop(t, <<RootPath>>, <<>>)

\* ---------------------------------------------------- NestedExportService
\* JavaScript truthiness of a string read from a map (undefined and '' are falsy)
Truthy(m, k) == k \in DOMAIN m /\ m[k] # ""

\* combineExportedPages: pre-order walk; one block (separator, content) per
\* node whose pageId has truthy content in the map
RECURSIVE traverse(_, _, _)
RECURSIVE traverseChildren(_, _, _, _)
traverse(exportedPages, t, path) ==
  LET node == t[path]
      own == IF Truthy(exportedPages, node.pageId)
               THEN << [name |-> node.name, path |-> path, depth |-> node.depth,
                        text |-> exportedPages[node.pageId]] >>
               ELSE <<>>
  IN own \o traverseChildren(exportedPages, t, path, 1)
\* mutant of traverseChildren: the children are walked last to first
traverseChildrenReversed(exportedPages, t, path, i) ==
  IF i > t[path].kids THEN <<>>
  ELSE traverseChildren(exportedPages, t, path, i + 1)
         \o traverse(exportedPages, t, Append(path, i))

traverseChildren(exportedPages, t, path, i) ==
  IF i > t[path].kids THEN <<>>
  ELSE traverse(exportedPages, t, Append(path, i))
         \o traverseChildren(exportedPages, t, path, i + 1)

combineExportedPages(exportedPages, t) == traverse(exportedPages, t, RootPath)

\* mutant of isCacheValid: an unchanged updatedAt counts as a change
isCacheValidStrict(cache, pageId, pageUpdatedAt, clock) ==
  IF pageId \notin DOMAIN cache THEN FALSE
  ELSE IF pageUpdatedAt # NoMarker /\ cache[pageId].pageUpdatedAt # NoMarker
    THEN pageUpdatedAt < cache[pageId].pageUpdatedAt
    ELSE cache[pageId].fetchedAt > clock - FiveMinutes

\* isCacheValid
isCacheValid(cache, pageId, pageUpdatedAt, clock) ==
  IF pageId \notin DOMAIN cache THEN FALSE
  ELSE IF pageUpdatedAt # NoMarker /\ cache[pageId].pageUpdatedAt # NoMarker
    THEN pageUpdatedAt <= cache[pageId].pageUpdatedAt
    ELSE cache[pageId].fetchedAt > clock - FiveMinutes

\* getCachedContent; "" stands for null (both are falsy at the call site)
getCachedContent(cache, pageId, pageUpdatedAt, clock) ==
  IF isCacheValid(cache, pageId, pageUpdatedAt, clock) THEN cache[pageId].content ELSE ""

\* mutant of setCachedContent: an entry that is there keeps its fetchedAt
setCachedContentKeepsTime(cache, pageId, content, pageUpdatedAt, clock) ==
  MapSet(cache, pageId,
         [content |-> content,
          fetchedAt |-> IF pageId \in DOMAIN cache THEN cache[pageId].fetchedAt ELSE clock,
          pageUpdatedAt |-> pageUpdatedAt])

\* setCachedContent
setCachedContent(cache, pageId, content, pageUpdatedAt, clock) ==
  MapSet(cache, pageId,
         [content |-> content, fetchedAt |-> clock, pageUpdatedAt |-> pageUpdatedAt])

\* mutant of getCachedJobId: an id that is returned leaves the cache
getCachedJobIdOnce(cache, pageId, clock) ==
  IF pageId \notin DOMAIN cache THEN [id |-> 0, cache |-> cache]
  ELSE IF cache[pageId].submittedAt < clock - TenMinutes
    THEN [id |-> 0, cache |-> MapDelete(cache, pageId)]
    ELSE [id |-> cache[pageId].exportId, cache |-> MapDelete(cache, pageId)]

\* mutant of getCachedJobId: an entry exactly ten minutes old is stale
getCachedJobIdStrict(cache, pageId, clock) ==
  IF pageId \notin DOMAIN cache THEN [id |-> 0, cache |-> cache]
  ELSE IF cache[pageId].submittedAt <= clock - TenMinutes
    THEN [id |-> 0, cache |-> MapDelete(cache, pageId)]
    ELSE [id |-> cache[pageId].exportId, cache |-> cache]

\* getCachedJobId: the id (0 for null) and the cache after the lazy delete
getCachedJobId(cache, pageId, clock) ==
  IF pageId \notin DOMAIN cache THEN [id |-> 0, cache |-> cache]
  ELSE IF cache[pageId].submittedAt < clock - TenMinutes
    THEN [id |-> 0, cache |-> MapDelete(cache, pageId)]
    ELSE [id |-> cache[pageId].exportId, cache |-> cache]

\* mutant of setCachedJobId: an entry that is there is kept
setCachedJobIdKeepsFirst(cache, pageId, exportId, clock) ==
  IF pageId \in DOMAIN cache THEN cache
  ELSE MapSet(cache, pageId, [exportId |-> exportId, submittedAt |-> clock])

\* setCachedJobId
setCachedJobId(cache, pageId, exportId, clock) ==
  MapSet(cache, pageId, [exportId |-> exportId, submittedAt |-> clock])

\* mutant of retryOperation: the last attempt is one too early
retryOperationOneShort(attempt, retries, delay0) ==
  IF attempt + 1 >= retries THEN [again |-> FALSE, delay |-> 0]
  ELSE [again |-> TRUE, delay |-> delay0 * (2 ^ attempt)]

\* retryOperation after a failed attempt: retry (after a delay) or give up
retryOperation(attempt, retries, delay0) ==
  IF attempt = retries THEN [again |-> FALSE, delay |-> 0]
  ELSE [again |-> TRUE, delay |-> delay0 * (2 ^ attempt)]

\* mutant of ResultSuccess: the flag does not look at the failures
ResultSuccessAlways(failedPages) == TRUE

\* the success flag and error of the result built at lines 109-119
ResultSuccess(failedPages) == Len(failedPages) = 0

ExportResult(pc, succ, failedPages, combined) ==
  [kind |-> "result",
   success |-> ResultSuccess(failedPages),
   totalPages |-> pc.totalPages,
   successfulPages |-> Cardinality(DOMAIN succ),
   failedPages |-> failedPages,
   combinedContent |-> combined,
   error |-> IF Len(failedPages) > 0 THEN "pages failed to export" ELSE ""]

\* the result built in the catch block, lines 120-129
AbortResult(msg) ==
  [kind |-> "result",
   success |-> FALSE,
   totalPages |-> 0,
   successfulPages |-> 0,
   failedPages |-> <<>>,
   combinedContent |-> <<>>,
   error |-> msg]

\* ------------------------------------------------------------------- Init
Fresh(f) == [r \in RunIds |-> f]

InitCommon ==
  /\ config \in Configs
  /\ faults = 0
  /\ remoteJobs = <<>>
  /\ broken = {}
  /\ now = 0
  /\ nextExportId = 1
  /\ contentCache = EmptyMap
  /\ exportJobCache = EmptyMap
  /\ phase = Fresh("idle")
  /\ depthArg = Fresh(0)
  /\ discovery = Fresh("none")
  /\ visited = Fresh({})
  /\ tree = Fresh(EmptyMap)
  /\ pageCount = Fresh(NoCount)
  /\ calls = Fresh({})
  /\ allPages = Fresh(<<>>)
  /\ subIdx = Fresh(0)
  /\ subPc = Fresh("none")
  /\ subAttempt = Fresh(0)
  /\ subMarker = Fresh(NoMarker)
  /\ jobs = Fresh(<<>>)
  /\ failed = Fresh(<<>>)
  /\ successful = Fresh(EmptyMap)
  /\ outcome = Fresh(EmptyMap)
  /\ served = Fresh(EmptyMap)
  /\ doneOrder = Fresh(<<>>)
  /\ result = Fresh(NoResult)
  /\ progress = Fresh(NoProgress)

\* no call of retryOperation is observed on its own
RetryIdle ==
  [n |-> 0, b |-> 0, always |-> FALSE, attempt |-> 0, pc |-> "idle", calls |-> 0,
   delays |-> <<>>, lastError |-> 0, thrown |-> 0]
OpIds == 1..MaxOps
NoOp == [st |-> "none", gen |-> 0]
LimiterIdle ==
  /\ limCategory = "read"
  /\ limGen = 0
  /\ limReservoir = 0
  /\ limAdmitted = 0
  /\ limOps = [i \in OpIds |-> NoOp]
SingleIdle ==
  [inv |-> 0, pc |-> "idle", kind |-> "none", page |-> 0, exportId |-> 0, downloadUrl |-> <<>>,
   attempts |-> 0, cached |-> FALSE, result |-> NoResult]
NoRemoteJobs == [next |-> 1, job |-> [final |-> "none", left |-> 0, url |-> <<>>]]
SingleServiceIdle ==
  /\ exportCache = EmptyMap
  /\ sClock = 0
  /\ sUrlShape = [parsable |-> FALSE, expires |-> <<>>]
  /\ sRemote = NoRemoteJobs
  /\ single = SingleIdle
  /\ sLog = {}
AuxIdle == retry = RetryIdle /\ LimiterIdle /\ SingleServiceIdle

\* exportNestedPages is called once on a fresh service.  Either any of the
\* export graphs with transient failures and pages that cannot be exported,
\* or the root with two children and export jobs that never yield content
Init ==
  /\ InitCommon
  /\ AuxIdle
  /\ mode = "export"
  /\ updatedAt = [p \in Pages |-> 1]
  /\ runLimit = 1
  /\ overlap = FALSE
  /\ \/ /\ graph \in ExportGraphs
        /\ \E e \in {{}, {RootPage}} :
             pageBody = [p \in Pages |-> IF p \in e THEN "" ELSE Body(p)]
        /\ faultLimit = MaxFaults
        /\ brokenLimit = MaxBroken
        /\ jobKind = [p \in Pages |-> "healthy"]
     \/ /\ graph = GTwoKids
        /\ pageBody = [p \in Pages |-> Body(p)]
        /\ faultLimit = 0
        /\ brokenLimit = 0
        /\ \E p \in {RootPage, 2} : \E k \in JobKinds \ {"healthy"} :
             jobKind = [q \in Pages |-> IF q = p THEN k ELSE "healthy"]

\* discoverPages is called directly (the popup's page count)
InitDiscover ==
  /\ InitCommon
  /\ AuxIdle
  /\ mode = "discover"
  /\ graph \in DiscoverGraphs
  /\ pageBody = [p \in Pages |-> Body(p)]
  /\ updatedAt = [p \in Pages |-> NoMarker]
  /\ faultLimit = 1
  /\ jobKind = [p \in Pages |-> "healthy"]
  /\ brokenLimit = 0
  /\ runLimit = 1
  /\ overlap = FALSE

\* ------------------------------------------------------------- discovery
\* mutant of Configured: the API key itself is not looked at
ConfiguredFlagOnly(c) == c.isConfigured

Configured(c) == c.isConfigured /\ c.apiKey # ""

Rejected(msg) == [kind |-> "rejected", error |-> msg]

\* what the caller of the entry point gets when discoverPages rejects
DiscoveryFailure(msg) == IF mode = "export" THEN AbortResult(msg) ELSE Rejected(msg)

\* the progress events of exportNestedPages (lines 46-49, 53-57, 60-65, 90-95
\* and 102-107)
DiscoveringEvent == [state |-> "discovering"]
FoundEvent(total) == [state |-> "discovering", totalPages |-> total]
ExportingEvent(processed, total) ==
  [state |-> "exporting", pagesProcessed |-> processed, totalPages |-> total]
CombiningEvent(succ, total) ==
  [state |-> "combining", pagesProcessed |-> Cardinality(DOMAIN succ), totalPages |-> total]
CompleteEvent(succ, total) ==
  [state |-> "complete", pagesProcessed |-> Cardinality(DOMAIN succ), totalPages |-> total]
\* mutant of FinalEvents: complete is reported before combining
FinalEventsCompleteFirst(succ, total) ==
  <<CompleteEvent(succ, total), CombiningEvent(succ, total)>>

FinalEvents(succ, total) == <<CombiningEvent(succ, total), CompleteEvent(succ, total)>>

\* mutant of reportProgress: the number of pages submitted is always reported
reportProgressSubmitted(submitted, completed, total) == ExportingEvent(submitted, total)

\* the callback given to exportAllPagesOptimized (lines 70-86)
reportProgress(submitted, completed, total) ==
  ExportingEvent(IF completed > 0 THEN completed ELSE submitted, total)

\* exportNestedPages lines 44-51 (or a direct call of discoverPages), then
\* discoverPages lines 30-47 up to the root's GetPage; r is the number of the
\* call (call r is made after call r - 1 was made)
StartCall(r, d) ==
  /\ phase[r] = "idle"
  /\ r <= runLimit
  /\ \A q \in RunIds : q < r => phase[q] # "idle"
  /\ overlap \/ \A q \in RunIds : phase[q] \in {"idle", "done"}
  /\ depthArg' = [depthArg EXCEPT ![r] = d]
  /\ progress' = [progress EXCEPT ![r].events =
                    IF mode = "export" THEN <<DiscoveringEvent>> ELSE <<>>]
  /\ IF ~Configured(config)
       THEN /\ discovery' = [discovery EXCEPT ![r] = "rejected"]
            /\ result' = [result EXCEPT ![r] = DiscoveryFailure(NotConfiguredError)]
            /\ phase' = [phase EXCEPT ![r] = "done"]
            /\ UNCHANGED <<visited, tree, calls>>
       ELSE LET node == BuildHierarchyEnter({}, RootPage, 0) IN
            /\ discovery' = [discovery EXCEPT ![r] = "running"]
            /\ visited' = [visited EXCEPT ![r] = {RootPage}]
            /\ tree' = [tree EXCEPT ![r] = MapSet(EmptyMap, RootPath, node)]
            /\ calls' = [calls EXCEPT ![r] = {GetPageCall("discovery", RootPath, RootPage, 0)}]
            /\ phase' = [phase EXCEPT ![r] = "discovering"]
            /\ UNCHANGED result
  /\ UNCHANGED <<envVars, cacheVars, pageCount, subVars, pollVars, auxVars>>

StartExport(r) == mode = "export" /\ \E d \in ExportDepths : StartCall(r, d)
StartDiscover(r) == mode = "discover" /\ \E d \in DepthSettings : StartCall(r, d)

Fetching(t) == {q \in DOMAIN t : t[q].fetching}

\* buildHierarchy lines 105-140 of the node at path: its GetPage resolves, its
\* children enter buildHierarchy; when no GetPage is left pending the root's
\* promise resolves and discoverPages (lines 49-72) returns
GetPageReturn(r, path) ==
  /\ path \in DOMAIN tree[r]
  /\ tree[r][path].fetching
  /\ tree[r][path].depth < MaxTreeDepth
  /\ LET node == tree[r][path]
         refs == IF shouldRecurse(depthArg[r], node.depth) THEN graph[node.pageId] ELSE <<>>
         self == [node EXCEPT !.name = PageName(node.pageId), !.kids = Len(refs),
                              !.fetching = FALSE]
         s == EnterChildren([tree |-> MapSet(tree[r], path, self), visited |-> visited[r],
                             calls |-> calls[r]], path, refs, node.depth, 1)
         finished == discovery[r] = "running" /\ Fetching(s.tree) = {}
     IN /\ tree' = [tree EXCEPT ![r] = s.tree]
        /\ visited' = [visited EXCEPT ![r] = s.visited]
        /\ calls' = [calls EXCEPT ![r] = s.calls]
        /\ IF finished
             THEN /\ discovery' = [discovery EXCEPT ![r] = "returned"]
                  /\ pageCount' = [pageCount EXCEPT ![r] = PageCountOf(s.tree)]
                  /\ IF mode = "export"
                       THEN /\ phase' = [phase EXCEPT ![r] = "configuring"]
                            /\ progress' = [progress EXCEPT ![r].events =
                                  @ \o <<FoundEvent(PageCountOf(s.tree).totalPages),
                                         ExportingEvent(0, PageCountOf(s.tree).totalPages)>>]
                            /\ UNCHANGED result
                       ELSE /\ phase' = [phase EXCEPT ![r] = "done"]
                            /\ result' = [result EXCEPT ![r] = [kind |-> "count"]]
                            /\ UNCHANGED progress
             ELSE UNCHANGED <<discovery, pageCount, phase, result, progress>>
  /\ UNCHANGED <<envVars, cacheVars, depthArg, subVars, pollVars, auxVars>>

\* mutant of AwaitAllRejected: the rejection is swallowed (allSettled)
AwaitAllSettled(status) == status

\* await Promise.all(childPromises) (line 128) and the await of line 39: a
\* rejected GetPage rejects every pending ancestor up to discoverPages
AwaitAllRejected(status) == IF status = "running" THEN "rejected" ELSE status

\* the GetPage of the node at path rejects: Promise.all rejects up to the
\* root, discoverPages rejects; the GetPage calls of other branches that are
\* already in flight are not cancelled
GetPageFail(r, path) ==
  /\ path \in DOMAIN tree[r]
  /\ tree[r][path].fetching
  /\ faults < faultLimit
  /\ faults' = faults + 1
  /\ tree' = [tree EXCEPT ![r][path].fetching = FALSE]
  /\ discovery' = [discovery EXCEPT ![r] = AwaitAllRejected(discovery[r])]
  /\ IF discovery[r] = "running" /\ discovery'[r] = "rejected"
       THEN /\ result' = [result EXCEPT ![r] = DiscoveryFailure(RemoteError)]
            /\ phase' = [phase EXCEPT ![r] = "done"]
       ELSE UNCHANGED <<result, phase>>
  /\ UNCHANGED <<graph, pageBody, updatedAt, config, faultLimit, jobKind, brokenLimit, remoteJobs,
                 broken, runLimit, overlap, mode, now, nextExportId, cacheVars, depthArg, visited, pageCount,
                 calls, progress, subVars, pollVars, auxVars>>

\* the user clears the stored API key (storage.clearApiKey)
ClearApiKey ==
  /\ config # ConfigNone
  /\ \E r \in RunIds : phase[r] \in {"idle", "discovering", "configuring"}
  /\ config' = ConfigNone
  /\ UNCHANGED <<graph, pageBody, updatedAt, faults, faultLimit, jobKind, brokenLimit, remoteJobs,
                 broken, runLimit, overlap, mode, now, nextExportId, cacheVars, discVars, subVars, pollVars,
                 phase, calls, result, progress, auxVars>>

NextDiscover ==
  \/ \E r \in RunIds : StartDiscover(r)
  \/ \E r \in RunIds : \E path \in DOMAIN tree[r] : GetPageReturn(r, path)
  \/ \E r \in RunIds : \E path \in DOMAIN tree[r] : GetPageFail(r, path)
  \/ ClearApiKey

SpecDiscover == InitDiscover /\ [][NextDiscover]_vars

\* ------------------------------------------------- submission (lines 216-298)
Failure(node, path, prefix, msg) ==
  [pageId |-> node.pageId, pageName |-> node.name, path |-> path,
   error |-> [prefix |-> prefix, msg |-> msg]]

NewJob(path, pageId, exportId, marker) ==
  [path |-> path, pageId |-> pageId, exportId |-> exportId, pageUpdatedAt |-> marker,
   st |-> "queued", attempts |-> 0, fetchAttempt |-> 0]

\* lines 89-119: combine and return
Finish(r, succ, failedPages) ==
  /\ phase' = [phase EXCEPT ![r] = "done"]
  /\ result' = [result EXCEPT ![r] =
                  ExportResult(pageCount[r], succ, failedPages,
                               combineExportedPages(succ, tree[r]))]

\* exportAllPagesOptimized lines 216-239: the second configuration read, the
\* flat list, and the GetPage of the first page
ExportConfigRead(r) ==
  /\ phase[r] = "configuring"
  /\ IF ~Configured(config)
       THEN /\ phase' = [phase EXCEPT ![r] = "done"]
            /\ result' = [result EXCEPT ![r] = AbortResult(NotConfiguredError)]
            /\ UNCHANGED <<allPages, subIdx, subPc, outcome, served, calls>>
       ELSE LET flat == getFlatPageList(tree[r])
                first == tree[r][flat[1]]
            IN /\ allPages' = [allPages EXCEPT ![r] = flat]
               /\ outcome' = [outcome EXCEPT ![r] = [q \in DOMAIN tree[r] |-> "pending"]]
               /\ UNCHANGED served
               /\ subIdx' = [subIdx EXCEPT ![r] = 1]
               /\ subPc' = [subPc EXCEPT ![r] = "getPage"]
               /\ calls' = [calls EXCEPT ![r] = @ \cup
                              {GetPageCall("submission", flat[1], first.pageId, first.depth)}]
               /\ phase' = [phase EXCEPT ![r] = "submitting"]
               /\ UNCHANGED result
  /\ UNCHANGED <<envVars, cacheVars, discVars, subAttempt, subMarker, jobs, failed, successful,
                 doneOrder, progress, auxVars>>

\* lines 246-247, 260-261, 284-285, 295-296: submitted++ and onProgress, with
\* completed = submitted when the page was served from the cache (nothing was
\* queued and nothing failed) and 0 otherwise; after the last page,
\* completed starts as successful.size (line 307) and, when nothing is to be
\* polled, the run reports combining and complete
SubmissionProgress(r, jobs2, failed2, succ2) ==
  LET submitted == progress[r].submitted + 1
      fromCache == jobs2 = jobs[r] /\ failed2 = failed[r]
      last == subIdx[r] >= Len(allPages[r])
      total == pageCount[r].totalPages
  IN progress' = [progress EXCEPT ![r] =
       [submitted |-> submitted,
        completed |-> IF last THEN Cardinality(DOMAIN succ2) ELSE 0,
        events |-> Append(progress[r].events,
                          reportProgress(submitted, IF fromCache THEN submitted ELSE 0, total))
                     \o (IF last /\ Len(jobs2) = 0 THEN FinalEvents(succ2, total) ELSE <<>>)]]

\* mutant of NextSubmission: the settle delay is waited for whether or not a
\* job is to be polled
NextSubmissionAlwaysSettles(r, jobs2, failed2, succ2, calls2) ==
  /\ jobs' = [jobs EXCEPT ![r] = jobs2]
  /\ failed' = [failed EXCEPT ![r] = failed2]
  /\ successful' = [successful EXCEPT ![r] = succ2]
  /\ SubmissionProgress(r, jobs2, failed2, succ2)
  /\ subAttempt' = [subAttempt EXCEPT ![r] = 0]
  /\ subMarker' = [subMarker EXCEPT ![r] = NoMarker]
  /\ IF subIdx[r] < Len(allPages[r])
       THEN LET path == allPages[r][subIdx[r] + 1]
                node == tree[r][path]
            IN /\ subIdx' = [subIdx EXCEPT ![r] = @ + 1]
               /\ subPc' = [subPc EXCEPT ![r] = "getPage"]
               /\ calls' = [calls EXCEPT ![r] = calls2 \cup
                              {GetPageCall("submission", path, node.pageId, node.depth)}]
               /\ UNCHANGED <<phase, result>>
       ELSE /\ subPc' = [subPc EXCEPT ![r] = "none"]
            /\ calls' = [calls EXCEPT ![r] = calls2]
            /\ UNCHANGED subIdx
            /\ phase' = [phase EXCEPT ![r] = "settling"]
            /\ UNCHANGED result

\* mutant of NextSubmission: the GetPage of the page after the next is issued
\* along with that of the next page
NextSubmissionPrefetch(r, jobs2, failed2, succ2, calls2) ==
  /\ jobs' = [jobs EXCEPT ![r] = jobs2]
  /\ failed' = [failed EXCEPT ![r] = failed2]
  /\ successful' = [successful EXCEPT ![r] = succ2]
  /\ SubmissionProgress(r, jobs2, failed2, succ2)
  /\ subAttempt' = [subAttempt EXCEPT ![r] = 0]
  /\ subMarker' = [subMarker EXCEPT ![r] = NoMarker]
  /\ IF subIdx[r] < Len(allPages[r])
       THEN LET ahead == {i \in {subIdx[r] + 1, subIdx[r] + 2} : i <= Len(allPages[r])}
            IN /\ subIdx' = [subIdx EXCEPT ![r] = @ + 1]
               /\ subPc' = [subPc EXCEPT ![r] = "getPage"]
               /\ calls' = [calls EXCEPT ![r] = calls2 \cup
                              {GetPageCall("submission", allPages[r][i],
                                           tree[r][allPages[r][i]].pageId,
                                           tree[r][allPages[r][i]].depth) : i \in ahead}]
               /\ UNCHANGED <<phase, result>>
       ELSE /\ subPc' = [subPc EXCEPT ![r] = "none"]
            /\ calls' = [calls EXCEPT ![r] = calls2]
            /\ UNCHANGED subIdx
            /\ IF Len(jobs2) > 0
                 THEN /\ phase' = [phase EXCEPT ![r] = "settling"]
                      /\ UNCHANGED result
                 ELSE Finish(r, succ2, failed2)

\* the for loop goes on to the next page of allPages, or ends: settle delay
\* when a job is to be polled (lines 302-304), else Promise.all of nothing
NextSubmission(r, jobs2, failed2, succ2, calls2) ==
  /\ jobs' = [jobs EXCEPT ![r] = jobs2]
  /\ failed' = [failed EXCEPT ![r] = failed2]
  /\ successful' = [successful EXCEPT ![r] = succ2]
  /\ SubmissionProgress(r, jobs2, failed2, succ2)
  /\ subAttempt' = [subAttempt EXCEPT ![r] = 0]
  /\ subMarker' = [subMarker EXCEPT ![r] = NoMarker]
  /\ IF subIdx[r] < Len(allPages[r])
       THEN LET path == allPages[r][subIdx[r] + 1]
                node == tree[r][path]
            IN /\ subIdx' = [subIdx EXCEPT ![r] = @ + 1]
               /\ subPc' = [subPc EXCEPT ![r] = "getPage"]
               /\ calls' = [calls EXCEPT ![r] = calls2 \cup
                              {GetPageCall("submission", path, node.pageId, node.depth)}]
               /\ UNCHANGED <<phase, result>>
       ELSE /\ subPc' = [subPc EXCEPT ![r] = "none"]
            /\ calls' = [calls EXCEPT ![r] = calls2]
            /\ UNCHANGED subIdx
            /\ IF Len(jobs2) > 0
                 THEN /\ phase' = [phase EXCEPT ![r] = "settling"]
                      /\ UNCHANGED result
                 ELSE Finish(r, succ2, failed2)

CurrentPath(r) == allPages[r][subIdx[r]]

\* lines 239-273: GetPage of the current page resolves; content cache, then
\* job cache, then a new BeginExport under retryOperation
SubmitGetPageReturn(r) ==
  /\ phase[r] = "submitting"
  /\ subPc[r] = "getPage"
  /\ LET path == CurrentPath(r)
         node == tree[r][path]
         marker == updatedAt[node.pageId]
         cachedContent == getCachedContent(contentCache, node.pageId, marker, now)
         cj == getCachedJobId(exportJobCache, node.pageId, now)
         valid == isCacheValid(contentCache, node.pageId, marker, now)
     IN /\ served' = [served EXCEPT ![r] =
                        MapSet(@, path, [valid |-> valid,
                                         content |-> IF valid THEN contentCache[node.pageId].content
                                                              ELSE ""])]
        /\ IF cachedContent # ""
          THEN /\ outcome' = [outcome EXCEPT ![r][path] = "cached"]
               /\ NextSubmission(r, jobs[r], failed[r],
                                 MapSet(successful[r], node.pageId, cachedContent), calls[r])
               /\ UNCHANGED exportJobCache
          ELSE IF cj.id # 0
            THEN /\ exportJobCache' = cj.cache
                 /\ outcome' = [outcome EXCEPT ![r][path] = "queued"]
                 /\ NextSubmission(r, Append(jobs[r], NewJob(path, node.pageId, cj.id, marker)),
                                   failed[r], successful[r], calls[r])
            ELSE /\ exportJobCache' = cj.cache
                 /\ subPc' = [subPc EXCEPT ![r] = "beginExport"]
                 /\ subAttempt' = [subAttempt EXCEPT ![r] = 0]
                 /\ subMarker' = [subMarker EXCEPT ![r] = marker]
                 /\ calls' = [calls EXCEPT ![r] = @ \cup
                                {Call("BeginExport", "submission", path, node.pageId,
                                      node.depth, 0, 0)}]
                 /\ UNCHANGED <<jobs, failed, successful, outcome, subIdx, phase, result, progress>>
  /\ UNCHANGED <<envVars, contentCache, discVars, allPages, doneOrder, auxVars>>

\* mutant of SubmitFailed: the error leaves the loop and reaches the catch of
\* exportNestedPages
SubmitFailedAbort(r, msg) ==
  /\ phase' = [phase EXCEPT ![r] = "done"]
  /\ result' = [result EXCEPT ![r] = AbortResult(msg)]
  /\ subPc' = [subPc EXCEPT ![r] = "none"]
  /\ UNCHANGED <<jobs, failed, successful, outcome, served, subAttempt, subMarker, subIdx, calls,
                 progress>>

\* lines 286-297: the catch of the loop body records one FailedExport and the
\* loop goes on
SubmitFailed(r, msg) ==
  LET path == CurrentPath(r)
      node == tree[r][path]
  IN /\ outcome' = [outcome EXCEPT ![r][path] = "submitFailed"]
     /\ UNCHANGED served
     /\ NextSubmission(r, jobs[r], Append(failed[r], Failure(node, path, SubmitPrefix, msg)),
                       successful[r], calls[r])

\* GetPage of the current page rejects
SubmitGetPageFail(r) ==
  /\ phase[r] = "submitting"
  /\ subPc[r] = "getPage"
  /\ faults < faultLimit
  /\ faults' = faults + 1
  /\ SubmitFailed(r, RemoteError)
  /\ UNCHANGED <<graph, pageBody, updatedAt, config, faultLimit, jobKind, brokenLimit, remoteJobs,
                 broken, runLimit, overlap, mode, now, nextExportId, cacheVars, discVars, allPages, doneOrder, auxVars>>

\* an export job at the remote; it exports the page as it is when the job is
\* started, pageUpdatedAt is the page's marker at that moment
RemoteJob(pageId, kind, pageUpdatedAt) ==
  [pageId |-> pageId,
   pageUpdatedAt |-> pageUpdatedAt,
   status |-> CASE kind = "slow" -> "inProgress"
                [] kind = "failed" -> "failed"
                [] OTHER -> "complete",
   link |-> CASE kind = "noLink" -> "none"
              [] kind = "badLink" -> "bad"
              [] OTHER -> "ok"]

\* lines 266-285: BeginExport resolves; the job id is cached and the job queued
BeginExportReturn(r) ==
  /\ phase[r] = "submitting"
  /\ subPc[r] = "beginExport"
  /\ CurrentPath(r) \in DOMAIN tree[r] /\ tree[r][CurrentPath(r)].pageId \notin broken
  /\ LET path == CurrentPath(r)
         node == tree[r][path]
         id == nextExportId
     IN /\ remoteJobs' = Append(remoteJobs, RemoteJob(node.pageId, jobKind[node.pageId],
                                                       updatedAt[node.pageId]))
        /\ nextExportId' = nextExportId + 1
        /\ exportJobCache' = setCachedJobId(exportJobCache, node.pageId, id, now)
        /\ outcome' = [outcome EXCEPT ![r][path] = "queued"]
        /\ UNCHANGED served
        /\ NextSubmission(r, Append(jobs[r], NewJob(path, node.pageId, id, subMarker[r])),
                          failed[r], successful[r], calls[r])
  /\ UNCHANGED <<graph, pageBody, updatedAt, config, faults, faultLimit, jobKind, brokenLimit, broken,
                 runLimit, overlap, mode, now, contentCache, discVars, allPages, doneOrder, auxVars>>

\* BeginExport rejects: retryOperation (lines 405-430) tries again after its
\* delay, or throws after the last attempt.  The failure is transient, or
\* the remote cannot export this page at all (from then on every attempt fails)
BeginExportFail(r, persistent) ==
  /\ phase[r] = "submitting"
  /\ subPc[r] = "beginExport"
  /\ LET path == CurrentPath(r)
         node == tree[r][path]
         rr == retryOperation(subAttempt[r], maxRetries, baseDelay)
     IN /\ IF node.pageId \in broken
             THEN persistent /\ UNCHANGED <<faults, broken>>
             ELSE IF persistent
               THEN /\ Cardinality(broken) < brokenLimit
                    /\ broken' = broken \cup {node.pageId}
                    /\ UNCHANGED faults
               ELSE /\ faults < faultLimit
                    /\ faults' = faults + 1
                    /\ UNCHANGED broken
        /\ IF rr.again
             THEN /\ subAttempt' = [subAttempt EXCEPT ![r] = @ + 1]
                  /\ calls' = [calls EXCEPT ![r] = @ \cup
                                 {Call("BeginExport", "submission", path, node.pageId,
                                       node.depth, 0, subAttempt[r] + 1)}]
                  /\ UNCHANGED <<jobs, failed, successful, outcome, served, subIdx, subPc, subMarker,
                                 phase, result, progress>>
             ELSE SubmitFailed(r, RemoteError)
  /\ UNCHANGED <<graph, pageBody, updatedAt, config, faultLimit, jobKind, brokenLimit, remoteJobs,
                 runLimit, overlap, mode, now, nextExportId, cacheVars, discVars, allPages, doneOrder, auxVars>>

\* ---------------------------------------------------- polling (lines 300-400)
StatusCall(job, n) == Call("GetExportStatus", "polling", job.path, job.pageId, 0, n, 0)
FetchCall(job, k) == Call("FetchContent", "polling", job.path, job.pageId, 0, job.attempts, k)

Terminal(js) == \A i \in 1..Len(js) : js[i].st \in {"ok", "failed"}

\* lines 317-318, 327-328: completed++ and onProgress; when the last workflow
\* has settled the run reports combining and complete
PollProgress(r, jobs2, succ2) ==
  LET completed == progress[r].completed + 1
      total == pageCount[r].totalPages
  IN progress' = [progress EXCEPT ![r] =
       [submitted |-> progress[r].submitted,
        completed |-> completed,
        events |-> Append(progress[r].events,
                          reportProgress(progress[r].submitted, completed, total))
                     \o (IF Terminal(jobs2) THEN FinalEvents(succ2, total) ELSE <<>>)]]

\* lines 302-311: the settle delay is over; every job enters
\* pollAndFetchContent and issues its first GetExportStatus
SettleDone(r) ==
  /\ phase[r] = "settling"
  /\ phase' = [phase EXCEPT ![r] = "polling"]
  /\ jobs' = [jobs EXCEPT ![r] =
                [i \in 1..Len(jobs[r]) |-> [jobs[r][i] EXCEPT !.st = "status", !.attempts = 1]]]
  /\ calls' = [calls EXCEPT ![r] = @ \cup {StatusCall(jobs[r][i], 1) : i \in 1..Len(jobs[r])}]
  /\ UNCHANGED <<envVars, cacheVars, discVars, subVars, failed, successful, outcome, served, doneOrder,
                 result, progress, auxVars>>

\* a poll workflow has changed jobs/failed/successful; when it was the last
\* to settle, Promise.all resolves and the run returns (lines 332-334, 89-119)
PollUpdate(r, jobs2, failed2, succ2, calls2) ==
  /\ jobs' = [jobs EXCEPT ![r] = jobs2]
  /\ failed' = [failed EXCEPT ![r] = failed2]
  /\ successful' = [successful EXCEPT ![r] = succ2]
  /\ calls' = [calls EXCEPT ![r] = calls2]
  /\ IF Terminal(jobs2) THEN Finish(r, succ2, failed2) ELSE UNCHANGED <<phase, result>>

\* lines 319-329: the workflow of job j threw; one FailedExport
NodeFailed(r, j, msg) ==
  LET job == jobs[r][j]
  IN /\ outcome' = [outcome EXCEPT ![r][job.path] = "pollFailed"]
     /\ UNCHANGED served
     /\ doneOrder' = [doneOrder EXCEPT ![r] = Append(@, j)]
     /\ PollUpdate(r, [jobs[r] EXCEPT ![j].st = "failed"],
                   Append(failed[r], Failure(tree[r][job.path], job.path, "", msg)),
                   successful[r], calls[r])
     /\ PollProgress(r, [jobs[r] EXCEPT ![j].st = "failed"], successful[r])
     /\ UNCHANGED contentCache

\* lines 311-318: the workflow of job j returned content
NodeSucceeded(r, j, content) ==
  LET job == jobs[r][j]
  IN /\ outcome' = [outcome EXCEPT ![r][job.path] = "exported"]
     /\ UNCHANGED served
     /\ doneOrder' = [doneOrder EXCEPT ![r] = Append(@, j)]
     /\ contentCache' = setCachedContent(contentCache, job.pageId, content,
                                         job.pageUpdatedAt, now)
     /\ PollUpdate(r, [jobs[r] EXCEPT ![j].st = "ok"], failed[r],
                   MapSet(successful[r], job.pageId, content), calls[r])
     /\ PollProgress(r, [jobs[r] EXCEPT ![j].st = "ok"],
                     MapSet(successful[r], job.pageId, content))

\* mutant of PollAgain: the attempt is not counted
PollAgainUncounted(r, j) ==
  LET job == jobs[r][j]
  IN /\ PollUpdate(r, [jobs[r] EXCEPT ![j].st = "status", ![j].fetchAttempt = 0],
                   failed[r], successful[r], calls[r] \cup {StatusCall(job, job.attempts + 1)})
     /\ UNCHANGED <<outcome, served, contentCache, doneOrder, progress>>

\* the next iteration of the while loop of pollAndFetchContent
PollAgain(r, j) ==
  LET job == jobs[r][j]
  IN /\ PollUpdate(r, [jobs[r] EXCEPT ![j].st = "status", ![j].attempts = @ + 1,
                                      ![j].fetchAttempt = 0],
                   failed[r], successful[r], calls[r] \cup {StatusCall(job, job.attempts + 1)})
     /\ UNCHANGED <<outcome, served, contentCache, doneOrder, progress>>

\* mutant of PollCatch: the catch never rethrows
PollCatchNoLimit(r, j, msg) == PollAgain(r, j)

\* lines 389-396: the catch inside the loop rethrows on the last attempt and
\* otherwise waits and polls again
PollCatch(r, j, msg) ==
  IF jobs[r][j].attempts >= maxAttempts THEN NodeFailed(r, j, msg) ELSE PollAgain(r, j)

\* lines 355-388 and 399: GetExportStatus of job j resolves
PollStatusReturn(r, j) ==
  /\ phase[r] = "polling"
  /\ j \in 1..Len(jobs[r])
  /\ jobs[r][j].st = "status"
  /\ LET job == jobs[r][j]
         rj == remoteJobs[job.exportId]
     IN CASE rj.status = "complete" /\ rj.link = "none" -> PollCatch(r, j, NoLinkError)
          [] rj.status = "complete" /\ rj.link # "none" ->
               /\ PollUpdate(r, [jobs[r] EXCEPT ![j].st = "fetch", ![j].fetchAttempt = 0],
                             failed[r], successful[r], calls[r] \cup {FetchCall(job, 0)})
               /\ UNCHANGED <<outcome, served, contentCache, doneOrder, progress>>
          [] rj.status = "failed" -> PollCatch(r, j, ExportFailedError)
          [] OTHER ->
               IF job.attempts < maxAttempts
                 THEN PollAgain(r, j)
                 ELSE NodeFailed(r, j, TimedOutError)
  /\ UNCHANGED <<envVars, exportJobCache, discVars, subVars, auxVars>>

\* GetExportStatus of job j rejects (transient remote failure)
PollStatusError(r, j) ==
  /\ phase[r] = "polling"
  /\ j \in 1..Len(jobs[r])
  /\ jobs[r][j].st = "status"
  /\ faults < faultLimit
  /\ faults' = faults + 1
  /\ PollCatch(r, j, RemoteError)
  /\ UNCHANGED <<graph, pageBody, updatedAt, config, faultLimit, jobKind, brokenLimit, remoteJobs,
                 broken, runLimit, overlap, mode, now, nextExportId, exportJobCache, discVars, subVars, auxVars>>

\* lines 368-378 under retryOperation: a fetch of the download link failed
FetchFailed(r, j) ==
  LET job == jobs[r][j]
      rr == retryOperation(job.fetchAttempt, maxRetries, baseDelay)
  IN IF rr.again
       THEN /\ PollUpdate(r, [jobs[r] EXCEPT ![j].fetchAttempt = @ + 1], failed[r],
                          successful[r], calls[r] \cup {FetchCall(job, job.fetchAttempt + 1)})
            /\ UNCHANGED <<outcome, served, contentCache, doneOrder, progress>>
       ELSE PollCatch(r, j, FetchFailedError)

\* the fetch of job j's download link answers: the text, or a failure when
\* the link is broken
FetchReturn(r, j) ==
  /\ phase[r] = "polling"
  /\ j \in 1..Len(jobs[r])
  /\ jobs[r][j].st = "fetch"
  /\ IF remoteJobs[jobs[r][j].exportId].link = "ok"
       THEN NodeSucceeded(r, j, pageBody[jobs[r][j].pageId])
       ELSE FetchFailed(r, j)
  /\ UNCHANGED <<envVars, exportJobCache, discVars, subVars, auxVars>>

\* the fetch of job j's download link fails transiently
FetchError(r, j) ==
  /\ phase[r] = "polling"
  /\ j \in 1..Len(jobs[r])
  /\ jobs[r][j].st = "fetch"
  /\ remoteJobs[jobs[r][j].exportId].link = "ok"
  /\ faults < faultLimit
  /\ faults' = faults + 1
  /\ FetchFailed(r, j)
  /\ UNCHANGED <<graph, pageBody, updatedAt, config, faultLimit, jobKind, brokenLimit, remoteJobs,
                 broken, runLimit, overlap, mode, now, nextExportId, exportJobCache, discVars, subVars, auxVars>>

\* the remote service finishes an export job that was in progress
RemoteJobFinish(id) ==
  /\ id \in 1..Len(remoteJobs)
  /\ remoteJobs[id].status = "inProgress"
  /\ remoteJobs' = [remoteJobs EXCEPT ![id].status = "complete"]
  /\ UNCHANGED <<graph, pageBody, updatedAt, config, faults, faultLimit, jobKind, brokenLimit,
                 broken, runLimit, overlap, mode, now, nextExportId, cacheVars, discVars, subVars,
                 pollVars, phase, calls, result, progress, auxVars>>

Next ==
  \/ \E r \in RunIds : StartExport(r)
  \/ \E r \in RunIds : \E path \in DOMAIN tree[r] : GetPageReturn(r, path)
  \/ \E r \in RunIds : \E path \in DOMAIN tree[r] : GetPageFail(r, path)
  \/ ClearApiKey
  \/ \E r \in RunIds : ExportConfigRead(r)
  \/ \E r \in RunIds : SubmitGetPageReturn(r)
  \/ \E r \in RunIds : SubmitGetPageFail(r)
  \/ \E r \in RunIds : BeginExportReturn(r)
  \/ \E r \in RunIds : \E persistent \in BOOLEAN : BeginExportFail(r, persistent)
  \/ \E r \in RunIds : SettleDone(r)
  \/ \E r \in RunIds : \E j \in 1..Len(jobs[r]) : PollStatusReturn(r, j)
  \/ \E r \in RunIds : \E j \in 1..Len(jobs[r]) : PollStatusError(r, j)
  \/ \E r \in RunIds : \E j \in 1..Len(jobs[r]) : FetchReturn(r, j)
  \/ \E r \in RunIds : \E j \in 1..Len(jobs[r]) : FetchError(r, j)
  \/ \E id \in 1..Len(remoteJobs) : RemoteJobFinish(id)

Spec == Init /\ [][Next]_vars

\* ---------------------------------------------------------- fair export
\* a remote call or a timer of run r completes: it resolves or it rejects
CallCompletes(r) ==
  \/ \E path \in DOMAIN tree[r] : GetPageReturn(r, path)
  \/ \E path \in DOMAIN tree[r] : GetPageFail(r, path)
  \/ ExportConfigRead(r)
  \/ SubmitGetPageReturn(r)
  \/ SubmitGetPageFail(r)
  \/ BeginExportReturn(r)
  \/ \E persistent \in BOOLEAN : BeginExportFail(r, persistent)
  \/ SettleDone(r)
  \/ \E j \in 1..Len(jobs[r]) : PollStatusReturn(r, j)
  \/ \E j \in 1..Len(jobs[r]) : PollStatusError(r, j)
  \/ \E j \in 1..Len(jobs[r]) : FetchReturn(r, j)
  \/ \E j \in 1..Len(jobs[r]) : FetchError(r, j)

\* every remote call and every timer that is pending eventually completes;
\* nothing is asked of the remote jobs, of the configuration or of the caller
SpecFair ==
  /\ Init
  /\ [][Next]_vars
  /\ \A r \in RunIds : WF_vars(CallCompletes(r))

\* ------------------------------------------------------- fair discovery
\* every GetPage call that is in flight eventually returns
SpecDiscoverFair ==
  /\ InitDiscover
  /\ [][NextDiscover]_vars
  /\ WF_vars(\E r \in RunIds : \E path \in DOMAIN tree[r] : GetPageReturn(r, path))

\* ------------------------------------------- two calls on one service instance
CacheGraphs == {GSingle, GDup}
TickAmounts == {4, 6}

\* exportNestedPages is called twice on the same service instance.  Either
\* the second call is made after the first has returned, pages carry an
\* updatedAt or none does, the root may export to the empty string, the remote
\* may be unable to start the export of a page, and the clock advances and the
\* root is edited between any two steps; or the export job of the root fails
\* or never finishes; or the two calls may overlap
InitCache ==
  /\ InitCommon
  /\ AuxIdle
  /\ mode = "export"
  /\ config = ConfigOk
  /\ runLimit = 2
  /\ faultLimit = 0
  /\ \/ /\ overlap = FALSE
        /\ graph \in CacheGraphs
        /\ brokenLimit = MaxBroken
        /\ jobKind = [p \in Pages |-> "healthy"]
        /\ \E e \in {{}, {RootPage}} :
             pageBody = [p \in Pages |-> IF p \in e THEN "" ELSE Body(p)]
        /\ \E m \in {NoMarker, 1} : updatedAt = [p \in Pages |-> m]
     \/ /\ overlap = FALSE
        /\ graph = GSingle
        /\ brokenLimit = 0
        /\ \E k \in {"failed", "slow"} :
             jobKind = [p \in Pages |-> IF p = RootPage THEN k ELSE "healthy"]
        /\ pageBody = [p \in Pages |-> Body(p)]
        /\ updatedAt = [p \in Pages |-> NoMarker]
     \/ /\ overlap = TRUE
        /\ graph \in CacheGraphs
        /\ brokenLimit = 0
        /\ jobKind = [p \in Pages |-> "healthy"]
        /\ pageBody = [p \in Pages |-> Body(p)]
        /\ updatedAt = [p \in Pages |-> 1]

\* time passes (Date.now() is read at lines 148, 169, 184 and 200)
Tick(d) ==
  /\ ~overlap
  /\ now + d <= MaxClock
  /\ now' = now + d
  /\ UNCHANGED <<graph, pageBody, updatedAt, config, faults, faultLimit, jobKind, brokenLimit,
                 remoteJobs, broken, runLimit, overlap, mode, nextExportId, cacheVars, discVars, subVars,
                 pollVars, phase, calls, result, progress, auxVars>>

\* a page is modified remotely: GetPage reports a later updatedAt from now on
PageEdit(p) ==
  /\ ~overlap
  /\ updatedAt[p] # NoMarker
  /\ updatedAt[p] < MaxMarker
  /\ updatedAt' = [updatedAt EXCEPT ![p] = @ + 1]
  /\ UNCHANGED <<graph, pageBody, config, faults, faultLimit, jobKind, brokenLimit, remoteJobs,
                 broken, runLimit, overlap, mode, now, nextExportId, cacheVars, discVars, subVars,
                 pollVars, phase, calls, result, progress, auxVars>>

NextCache ==
  \/ \E r \in RunIds : StartExport(r)
  \/ \E r \in RunIds : \E path \in DOMAIN tree[r] : GetPageReturn(r, path)
  \/ \E r \in RunIds : ExportConfigRead(r)
  \/ \E r \in RunIds : SubmitGetPageReturn(r)
  \/ \E r \in RunIds : BeginExportReturn(r)
  \/ \E r \in RunIds : BeginExportFail(r, TRUE)
  \/ \E r \in RunIds : SettleDone(r)
  \/ \E r \in RunIds : \E j \in 1..Len(jobs[r]) : PollStatusReturn(r, j)
  \/ \E r \in RunIds : \E j \in 1..Len(jobs[r]) : FetchReturn(r, j)
  \/ \E d \in TickAmounts : Tick(d)
  \/ \E p \in {RootPage} : PageEdit(p)

SpecCache == InitCache /\ [][NextCache]_vars

\* --------------------------------------------- retryOperation (lines 405-430)
RetryArgs == 0..MaxRetryArg
RetryBaseDelays == {1, baseDelay}

\* the export side of the service when only retryOperation is looked at
ExportIdle ==
  /\ InitCommon
  /\ config = ConfigOk
  /\ mode = "none"
  /\ graph = GSingle
  /\ pageBody = [p \in Pages |-> Body(p)]
  /\ updatedAt = [p \in Pages |-> NoMarker]
  /\ faultLimit = 0
  /\ brokenLimit = 0
  /\ jobKind = [p \in Pages |-> "healthy"]
  /\ runLimit = 0
  /\ overlap = FALSE

\* retryOperation(operation, n, b) is called: attempt = 0 and the operation is
\* invoked for the first time (lines 412-414); the operation fails on every
\* call, or may succeed on any call
InitRetry ==
  /\ ExportIdle
  /\ LimiterIdle
  /\ SingleServiceIdle
  /\ \E n \in RetryArgs, b \in RetryBaseDelays, always \in BOOLEAN :
       retry = [n |-> n, b |-> b, always |-> always, attempt |-> 0, pc |-> "calling",
                calls |-> 1, delays |-> <<>>, lastError |-> 0, thrown |-> 0]

\* the operation resolves: retryOperation returns (line 414)
RetryOpReturns ==
  /\ retry.pc = "calling"
  /\ ~retry.always
  /\ retry' = [retry EXCEPT !.pc = "returned"]
  /\ UNCHANGED <<exportVars, limVars, sglVars>>

\* the operation rejects (lines 415-426): the error is kept as lastError; after
\* the last attempt the loop is left and lastError thrown (line 429), otherwise
\* the delay timer is started.  The error of the k-th call is numbered k
RetryOpFails ==
  /\ retry.pc = "calling"
  /\ LET rr == retryOperation(retry.attempt, retry.n, retry.b)
     IN retry' = IF rr.again
                   THEN [retry EXCEPT !.lastError = retry.calls, !.pc = "waiting",
                                      !.delays = Append(@, rr.delay)]
                   ELSE [retry EXCEPT !.lastError = retry.calls, !.pc = "thrown",
                                      !.thrown = retry.calls]
  /\ UNCHANGED <<exportVars, limVars, sglVars>>

\* the delay timer fires (line 425): attempt++ and the operation is invoked again
RetryTimerFires ==
  /\ retry.pc = "waiting"
  /\ retry' = [retry EXCEPT !.attempt = @ + 1, !.pc = "calling", !.calls = @ + 1]
  /\ UNCHANGED <<exportVars, limVars, sglVars>>

NextRetry == RetryOpReturns \/ RetryOpFails \/ RetryTimerFires

SpecRetry == InitRetry /\ [][NextRetry]_vars

\* ------------------------------------------- BottleneckRateLimiterAdapter
\* RATE_LIMIT_CONFIGS (minTime is 0 for every category)
RATE_LIMIT_CONFIGS ==
  [read |-> [maxConcurrent |-> 5, reservoir |-> 90, reservoirRefreshAmount |-> 90],
   write |-> [maxConcurrent |-> 2, reservoir |-> 9, reservoirRefreshAmount |-> 9],
   writeContent |-> [maxConcurrent |-> 1, reservoir |-> 4, reservoirRefreshAmount |-> 4],
   listDocs |-> [maxConcurrent |-> 1, reservoir |-> 3, reservoirRefreshAmount |-> 3],
   analytics |-> [maxConcurrent |-> 5, reservoir |-> 90, reservoirRefreshAmount |-> 90]]
Categories == DOMAIN RATE_LIMIT_CONFIGS
LimitConfig == RATE_LIMIT_CONFIGS[limCategory]

\* the operations a limiter holds, by job status.  A job is QUEUED until it is
\* launched, RUNNING from its launch until its function is invoked, and
\* EXECUTING while its function runs
OpsIn(ops, g, sts) == {i \in OpIds : ops[i].gen = g /\ ops[i].st \in sts}
\* getQueuedCount: counts().QUEUED of the category's current limiter
getQueuedCount == Cardinality(OpsIn(limOps, limGen, {"queued"}))
\* getRunningCount: counts().RUNNING of the category's current limiter
getRunningCount == Cardinality(OpsIn(limOps, limGen, {"running"}))

\* the constructor: one new limiter per category, its reservoir full
InitLimiter ==
  /\ ExportIdle
  /\ retry = RetryIdle
  /\ SingleServiceIdle
  /\ limCategory \in Categories
  /\ limGen = 0
  /\ limReservoir = LimitConfig.reservoir
  /\ limAdmitted = 0
  /\ limOps = [i \in OpIds |-> NoOp]

\* schedule(category, fn): the job enters the queue of the current limiter
Schedule(i) ==
  /\ limOps[i].st = "none"
  /\ \A k \in OpIds : k < i => limOps[k].st # "none"
  /\ limOps' = [limOps EXCEPT ![i] = [st |-> "queued", gen |-> limGen]]
  /\ UNCHANGED <<exportVars, retry, sglVars, limCategory, limGen, limReservoir, limAdmitted>>

\* the current limiter launches the job at the head of its queue: fewer than
\* maxConcurrent of its jobs are running or executing and its reservoir is
\* not used up; the launch takes one unit of the reservoir
Launch(i) ==
  /\ limOps[i] = [st |-> "queued", gen |-> limGen]
  /\ \A k \in OpsIn(limOps, limGen, {"queued"}) : i <= k
  /\ Cardinality(OpsIn(limOps, limGen, {"running", "executing"})) < LimitConfig.maxConcurrent
  /\ limReservoir > 0
  /\ limReservoir' = limReservoir - 1
  /\ limAdmitted' = limAdmitted + 1
  /\ limOps' = [limOps EXCEPT ![i].st = "running"]
  /\ UNCHANGED <<exportVars, retry, sglVars, limCategory, limGen>>

\* the launched job's function is invoked
Execute(i) ==
  /\ limOps[i].st = "running"
  /\ limOps' = [limOps EXCEPT ![i].st = "executing"]
  /\ UNCHANGED <<exportVars, retry, sglVars, limCategory, limGen, limReservoir, limAdmitted>>

\* mutant of Settle: a job whose function failed is put back in the queue
SettleRetried(i, ok) ==
  /\ limOps[i].st = "executing"
  /\ limOps' = [limOps EXCEPT ![i].st = IF ok THEN "resolved" ELSE "queued"]
  /\ UNCHANGED <<exportVars, retry, sglVars, limCategory, limGen, limReservoir, limAdmitted>>

\* the function settles: the promise schedule returned resolves with its
\* value or rejects with its error
Settle(i, ok) ==
  /\ limOps[i].st = "executing"
  /\ limOps' = [limOps EXCEPT ![i].st = IF ok THEN "resolved" ELSE "failed"]
  /\ UNCHANGED <<exportVars, retry, sglVars, limCategory, limGen, limReservoir, limAdmitted>>

\* the reservoir refresh timer of the current limiter fires
Refresh ==
  /\ limReservoir # LimitConfig.reservoirRefreshAmount \/ limAdmitted # 0
  /\ limReservoir' = LimitConfig.reservoirRefreshAmount
  /\ limAdmitted' = 0
  /\ UNCHANGED <<exportVars, retry, sglVars, limCategory, limGen, limOps>>

\* mutant of StopLimiter: the waiting jobs are kept (dropWaitingJobs: false)
StopLimiterKeepWaiting(ops, g) == ops

\* limiter.stop({ dropWaitingJobs: true }) (line 133): the jobs of the limiter
\* whose function was not invoked yet are dropped, their promises reject;
\* the executing ones go on
StopLimiter(ops, g) ==
  [i \in OpIds |-> IF ops[i].gen = g /\ ops[i].st \in {"queued", "running"}
                     THEN [ops[i] EXCEPT !.st = "dropped"] ELSE ops[i]]

\* clearQueue(category) (lines 126-146): the limiter is stopped and a new
\* limiter, built from the same configuration, takes its place
ClearQueue ==
  /\ limGen < MaxClears
  /\ limOps' = StopLimiter(limOps, limGen)
  /\ limGen' = limGen + 1
  /\ limReservoir' = LimitConfig.reservoir
  /\ UNCHANGED <<exportVars, retry, sglVars, limCategory, limAdmitted>>

NextLimiter ==
  \/ \E i \in OpIds : Schedule(i)
  \/ \E i \in OpIds : Launch(i)
  \/ \E i \in OpIds : Execute(i)
  \/ \E i \in OpIds : \E ok \in BOOLEAN : Settle(i, ok)
  \/ Refresh
  \/ ClearQueue

SpecLimiter == InitLimiter /\ [][NextLimiter]_vars

\* ------------------------------------------ ExportService (export.service.ts)
SinglePages == {1, 2}
SingleKinds == {"download", "clipboard"}
SingleWaits == {1000, 2000, 299000, 300000}

\* the characters of a query parameter value
DigitChars == <<"0", "1", "2", "3", "4", "5", "6", "7", "8", "9">>
IsDigit(c) == \E i \in 1..10 : DigitChars[i] = c
DigitVal(c) == (CHOOSE i \in 1..10 : DigitChars[i] = c) - 1

\* the values of X-Amz-Expires a download link may carry (decoded)
ExpiresValues ==
  {<<>>, <<"2">>, <<"3", "0", "0">>, <<"0">>, <<"-", "2">>, <<"x">>, <<"2", "x">>,
   <<"2", ".", "9">>, <<" ", "2">>, <<"+", "2">>}
\* download links: one that new URL() rejects, one without the parameter, and
\* one for each value of the parameter
UrlShapes ==
  {[parsable |-> FALSE, expires |-> << <<"2">> >>], [parsable |-> TRUE, expires |-> <<>>]}
    \cup {[parsable |-> TRUE, expires |-> <<v>>] : v \in ExpiresValues}

\* parseInt(s, 10): leading blanks are skipped, an optional sign is read, then
\* decimal digits up to the first other character; NaN when there is no digit
RECURSIVE SkipBlanks(_)
SkipBlanks(s) == IF s # <<>> /\ Head(s) = " " THEN SkipBlanks(Tail(s)) ELSE s
RECURSIVE ReadDigits(_, _, _)
ReadDigits(s, acc, any) ==
  IF s # <<>> /\ IsDigit(Head(s))
    THEN ReadDigits(Tail(s), acc * 10 + DigitVal(Head(s)), TRUE)
    ELSE [nan |-> ~any, val |-> acc]
\* mutant of parseInt: a value with anything but digits in it is not a number
parseIntWhole(s) ==
  IF s # <<>> /\ \A i \in 1..Len(s) : IsDigit(s[i])
    THEN ReadDigits(s, 0, FALSE)
    ELSE [nan |-> TRUE, val |-> 0]

parseInt(s) ==
  LET t == SkipBlanks(s)
      signed == t # <<>> /\ Head(t) \in {"-", "+"}
      d == ReadDigits(IF signed THEN Tail(t) ELSE t, 0, FALSE)
  IN [nan |-> d.nan, val |-> IF signed /\ Head(t) = "-" THEN 0 - d.val ELSE d.val]

\* extractAwsExpiration (lines 255-277), in milliseconds
extractAwsExpiration(url) ==
  IF ~url.parsable THEN defaultCacheDuration
  ELSE IF url.expires = <<>> \/ url.expires[1] = <<>> THEN defaultCacheDuration
  ELSE LET expiresSeconds == parseInt(url.expires[1])
       IN IF ~expiresSeconds.nan /\ expiresSeconds.val > 0
            THEN expiresSeconds.val * 1000
            ELSE defaultCacheDuration

\* getCachedExport (lines 211-226): whether a live entry is there, and the
\* cache after the delete of an expired one
getCachedExport(cache, page, clock) ==
  IF page \notin DOMAIN cache THEN [hit |-> FALSE, cache |-> cache]
  ELSE IF clock >= cache[page].expiresAt
    THEN [hit |-> FALSE, cache |-> MapDelete(cache, page)]
    ELSE [hit |-> TRUE, cache |-> cache]

\* cacheExport (lines 231-250)
cacheExport(cache, page, exportId, downloadUrl, clock) ==
  MapSet(cache, page, [downloadUrl |-> downloadUrl, exportId |-> exportId,
                       expiresAt |-> clock + extractAwsExpiration(downloadUrl)])

SingleCall(inv, op, page, arg) == [inv |-> inv, op |-> op, page |-> page, arg |-> arg]
SingleFailure(msg) == [kind |-> "result", success |-> FALSE, error |-> msg]
SingleSuccess(exportId) == [kind |-> "result", success |-> TRUE, exportId |-> exportId]

\* the catch of exportPage / exportToClipboard (lines 106-114, 185-193)
SingleFails(msg) ==
  single' = [single EXCEPT !.pc = "done", !.result = SingleFailure(msg)]

InitSingle ==
  /\ ExportIdle
  /\ retry = RetryIdle
  /\ LimiterIdle
  /\ exportCache = EmptyMap
  /\ sClock = 0
  /\ sUrlShape \in UrlShapes
  /\ sRemote = NoRemoteJobs
  /\ single = SingleIdle
  /\ sLog = {}

\* some time after the service was created or the previous call returned,
\* exportPage or exportToClipboard is called for a page: the configuration
\* read is awaited
SingleStart(kind, page, wait) ==
  /\ single.pc \in {"idle", "done"}
  /\ single.inv < MaxSingleCalls
  /\ sClock + wait <= MaxMillis
  /\ sClock' = sClock + wait
  /\ single' = [SingleIdle EXCEPT !.inv = single.inv + 1, !.pc = "config", !.kind = kind,
                                  !.page = page]
  /\ sLog' = {}
  /\ UNCHANGED <<exportVars, retry, limVars, exportCache, sUrlShape, sRemote>>

\* lines 41-78: the configuration is there; the cache is read, and either the
\* cached link is fetched or a new export is begun
SingleConfigRead(c) ==
  /\ single.pc = "config"
  /\ IF ~Configured(c)
       THEN /\ SingleFails(NotConfiguredError)
            /\ UNCHANGED <<exportCache, sLog>>
       ELSE LET cached == getCachedExport(exportCache, single.page, sClock)
            IN /\ exportCache' = cached.cache
               /\ IF cached.hit
                    THEN LET e == exportCache[single.page]
                         IN /\ single' = [single EXCEPT !.pc = "fetch", !.cached = TRUE,
                                                        !.exportId = e.exportId,
                                                        !.downloadUrl = e.downloadUrl]
                            /\ sLog' = sLog \cup {SingleCall(single.inv, "FetchContent",
                                                             single.page, e.downloadUrl)}
                    ELSE /\ single' = [single EXCEPT !.pc = "begin"]
                         /\ sLog' = sLog \cup {SingleCall(single.inv, "BeginExport",
                                                          single.page, <<>>)}
  /\ UNCHANGED <<exportVars, retry, limVars, sClock, sUrlShape, sRemote>>

\* beginExport (lines 282-331): the export is started remotely, with the
\* course its job will take; the three-second wait follows
SingleBeginReturn(final, slow) ==
  /\ single.pc = "begin"
  /\ sRemote' = [next |-> sRemote.next + 1,
                 job |-> [final |-> final, left |-> IF slow THEN 1 ELSE 0,
                          url |-> [job |-> sRemote.next, parsable |-> sUrlShape.parsable,
                                   expires |-> sUrlShape.expires]]]
  /\ single' = [single EXCEPT !.pc = "registering", !.exportId = sRemote.next]
  /\ UNCHANGED <<exportVars, retry, limVars, exportCache, sClock, sUrlShape, sLog>>

\* BeginExport rejects: "Failed to start export"
SingleBeginFail ==
  /\ single.pc = "begin"
  /\ SingleFails(StartFailedPrefix)
  /\ UNCHANGED <<exportVars, retry, limVars, exportCache, sClock, sUrlShape, sRemote, sLog>>

\* the wait of line 322 is over: pollUntilComplete issues its first status call
SingleRegistered ==
  /\ single.pc = "registering"
  /\ sClock' = sClock + settleDelay
  /\ single' = [single EXCEPT !.pc = "poll", !.attempts = 1]
  /\ sLog' = sLog \cup {SingleCall(single.inv, "GetExportStatus", single.page, 1)}
  /\ UNCHANGED <<exportVars, retry, limVars, exportCache, sUrlShape, sRemote>>

\* pollUntilComplete (lines 336-401) and lines 72-86: the status call resolves
SinglePollReturn ==
  /\ single.pc = "poll"
  /\ LET job == sRemote.job
     IN IF job.left > 0
          THEN /\ sRemote' = [sRemote EXCEPT !.job.left = @ - 1]
               /\ sClock' = sClock + pollInterval
               /\ UNCHANGED exportCache
               /\ IF single.attempts < maxPollAttempts
                    THEN /\ single' = [single EXCEPT !.attempts = @ + 1]
                         /\ sLog' = sLog \cup {SingleCall(single.inv, "GetExportStatus",
                                                          single.page, single.attempts + 1)}
                    ELSE /\ SingleFails("Export timed out")
                         /\ UNCHANGED sLog
          ELSE /\ UNCHANGED <<sRemote, sClock>>
               /\ IF job.final = "complete"
                    THEN /\ exportCache' = cacheExport(exportCache, single.page, single.exportId,
                                                       job.url, sClock)
                         /\ single' = [single EXCEPT !.pc = "fetch", !.downloadUrl = job.url]
                         /\ sLog' = sLog \cup {SingleCall(single.inv, "FetchContent",
                                                          single.page, job.url)}
                    ELSE /\ SingleFails(StatusFailedPrefix)
                         /\ UNCHANGED <<exportCache, sLog>>
  /\ UNCHANGED <<exportVars, retry, limVars, sUrlShape>>

\* the status call rejects: "Status check failed"
SinglePollError ==
  /\ single.pc = "poll"
  /\ SingleFails(StatusFailedPrefix)
  /\ UNCHANGED <<exportVars, retry, limVars, exportCache, sClock, sUrlShape, sRemote, sLog>>

\* fetchContent (lines 406-432) resolves or fails
SingleFetchReturn(ok) ==
  /\ single.pc = "fetch"
  /\ IF ok THEN single' = [single EXCEPT !.pc = "deliver"] ELSE SingleFails(FetchPrefix)
  /\ UNCHANGED <<exportVars, retry, limVars, exportCache, sClock, sUrlShape, sRemote, sLog>>

\* the download or the clipboard write (lines 88-105, 170-184) ends
SingleDeliver(ok) ==
  /\ single.pc = "deliver"
  /\ IF ok
       THEN single' = [single EXCEPT !.pc = "done", !.result = SingleSuccess(single.exportId)]
       ELSE SingleFails(DeliverError)
  /\ UNCHANGED <<exportVars, retry, limVars, exportCache, sClock, sUrlShape, sRemote, sLog>>

NextSingle ==
  \/ \E kind \in SingleKinds : \E page \in SinglePages : \E wait \in SingleWaits :
       SingleStart(kind, page, wait)
  \/ \E c \in Configs : SingleConfigRead(c)
  \/ \E final \in {"complete", "failed", "noLink"} : \E slow \in BOOLEAN :
       SingleBeginReturn(final, slow)
  \/ SingleBeginFail
  \/ SingleRegistered
  \/ SinglePollReturn
  \/ SinglePollError
  \/ \E ok \in BOOLEAN : SingleFetchReturn(ok)
  \/ \E ok \in BOOLEAN : SingleDeliver(ok)

SpecSingle == InitSingle /\ [][NextSingle]_vars

\* ================================================================ claims
IsResult(r) == result[r].kind = "result"
OpsOf(r, ops) == {c \in calls[r] : c.op \in ops}
ExportOps == {"BeginExport", "GetExportStatus", "FetchContent"}
\* the call reached the submission loop (discovery and both configuration
\* reads succeeded)
Submitting(r) == discovery[r] = "returned" /\ allPages[r] # <<>>
FailedAt(r, path) == {i \in 1..Len(failed[r]) : failed[r][i].path = path}
JobsAt(r, path) == {j \in 1..Len(jobs[r]) : jobs[r][j].path = path}

\* a path is before another in pre-order (a node before its descendants,
\* a node's subtree before its later siblings)
PreOrderBefore(a, b) ==
  \E i \in 1..Len(b) :
    /\ i <= Len(a) + 1
    /\ \A j \in 1..(i - 1) : a[j] = b[j]
    /\ (i = Len(a) + 1 \/ a[i] < b[i])

\* C1: once discovery has succeeded, every node of the flattened tree gets its
\* submission step and its own terminal outcome, a failed node is recorded
\* by exactly one FailedExport, and the returned result carries that list
C1_FailureContained ==
  \A r \in RunIds :
    (phase[r] = "done" /\ Submitting(r)) =>
      /\ IsResult(r)
      /\ result[r].failedPages = failed[r]
      /\ result[r].totalPages = Cardinality(DOMAIN tree[r])
      /\ \A path \in DOMAIN tree[r] :
           /\ \E c \in calls[r] : c.op = "GetPage" /\ c.phase = "submission" /\ c.path = path
           /\ Cardinality(FailedAt(r, path)) <= 1
           /\ Cardinality(JobsAt(r, path)) <= 1
           /\ \A j \in JobsAt(r, path) :
                /\ jobs[r][j].st \in {"ok", "failed"}
                /\ jobs[r][j].st = "failed" <=> FailedAt(r, path) # {}
                /\ jobs[r][j].st = "ok" => tree[r][path].pageId \in DOMAIN successful[r]
           /\ JobsAt(r, path) = {} =>
                \/ FailedAt(r, path) # {}
                \/ tree[r][path].pageId \in DOMAIN successful[r]

C1_Witness ==
  \E r \in RunIds :
    /\ phase[r] = "done" /\ Submitting(r)
    /\ Len(failed[r]) = 1
    /\ failed[r][1].path = <<0, 1>>
    /\ \E j \in 1..Len(jobs[r]) : jobs[r][j].path = <<0, 2>> /\ jobs[r][j].st = "ok"

\* C2 as stated: success is true exactly when failedPages is empty
C2_SuccessIffNoFailures ==
  \A r \in RunIds : IsResult(r) => (result[r].success <=> Len(result[r].failedPages) = 0)

\* C2 amended: success is true exactly when failedPages is empty and the call
\* reached the submission loop; a result of the abort path has success = FALSE
\* and an empty failedPages
C2_SuccessIffNoFailuresUnlessAborted ==
  \A r \in RunIds :
    IsResult(r) =>
      /\ result[r].success <=> (Len(result[r].failedPages) = 0 /\ Submitting(r))
      /\ ~Submitting(r) => Len(result[r].failedPages) = 0

C2_Witness ==
  \E r \in RunIds :
    /\ IsResult(r) /\ Submitting(r) /\ ~result[r].success /\ Len(result[r].failedPages) = 1

\* C3: a GetPage failure during discovery rejects discoverPages, no tree is
\* returned, the result is the empty failure result and no export call was made
C3_DiscoveryAllOrNothing ==
  \A r \in RunIds :
    (\E path \in DOMAIN tree[r] : ~tree[r][path].fetching /\ tree[r][path].name = "") =>
      /\ discovery[r] = "rejected"
      /\ pageCount[r] = NoCount
      /\ IsResult(r)
      /\ ~result[r].success
      /\ result[r].totalPages = 0
      /\ result[r].successfulPages = 0
      /\ result[r].failedPages = <<>>
      /\ result[r].combinedContent = <<>>
      /\ OpsOf(r, ExportOps) = {}

C3_Witness ==
  \E r \in RunIds :
    /\ discovery[r] = "rejected"
    /\ <<0, 1>> \in DOMAIN tree[r]
    /\ tree[r][<<0>>].name = "Root"
    /\ tree[r][<<0, 1>>].name = ""
    /\ ~tree[r][<<0, 1>>].fetching
    /\ IsResult(r)

\* C4: a call made while the stored configuration is not configured or has no
\* API key ends at once with the error result, discoverPages having rejected
\* before any fetch, and that call never issues a remote call
C4_NotConfiguredNoCalls ==
  [][\A r \in RunIds :
       /\ (phase[r] = "idle" /\ phase'[r] # "idle"
             /\ ~(config.isConfigured /\ config.apiKey # "")) =>
            /\ phase'[r] = "done"
            /\ discovery'[r] = "rejected"
            /\ tree'[r] = EmptyMap
            /\ calls'[r] = {}
            /\ result'[r].kind = "result"
            /\ ~result'[r].success
            /\ result'[r].error = "API key not configured"
       /\ (phase[r] = "done" /\ discovery[r] = "rejected" /\ tree[r] = EmptyMap) =>
            (calls'[r] = {} /\ result'[r] = result[r] /\ phase'[r] = "done")]_vars

C4_Witness ==
  \E r \in RunIds :
    /\ config = ConfigNoKey
    /\ phase[r] = "done"
    /\ calls[r] = {}
    /\ IsResult(r)
    /\ result[r].error = "API key not configured"

DepthOf(path) == Len(path) - 1
DiscoveryCalls(r) == {c \in calls[r] : c.op = "GetPage" /\ c.phase = "discovery"}

\* C5: with a numeric maxDepth d no GetPage is issued for a node deeper than
\* d, no node of the tree is deeper than d, and with d = 0 only the root is
\* fetched
C5_DepthBound ==
  \A r \in RunIds :
    (phase[r] # "idle" /\ depthArg[r] # Unlimited) =>
      /\ \A c \in OpsOf(r, {"GetPage"}) : DepthOf(c.path) <= depthArg[r] /\ c.depth <= depthArg[r]
      /\ \A path \in DOMAIN tree[r] :
           DepthOf(path) <= depthArg[r] /\ tree[r][path].depth <= depthArg[r]
      /\ depthArg[r] = 0 => \A c \in OpsOf(r, {"GetPage"}) : c.path = <<0>> /\ c.pageId = RootPage

C5_Witness ==
  \E r \in RunIds :
    /\ discovery[r] = "returned"
    /\ depthArg[r] = 1
    /\ graph = GDeep
    /\ DOMAIN tree[r] = {<<0>>, <<0, 1>>}
    /\ Cardinality(DiscoveryCalls(r)) = 2

\* C6: a discoverPages call whose GetPage calls all return does not run for
\* ever, whatever the page graph (cycles included) and the depth setting
C6_DiscoveryTerminates ==
  \A r \in RunIds : (discovery[r] = "running") ~> (discovery[r] # "running")

C6_Witness ==
  \E r \in RunIds :
    /\ discovery[r] = "returned"
    /\ depthArg[r] = Unlimited
    /\ graph = GCycle
    /\ <<0, 1, 1>> \in DOMAIN tree[r]
    /\ tree[r][<<0, 1, 1>>].pageId = RootPage

\* C7: one discoverPages call fetches every pageId at most once; every other
\* occurrence of the pageId is a '(Circular Reference)' leaf that has no
\* children and for which no GetPage was issued
C7_FetchedOnce ==
  \A r \in RunIds :
    /\ \A p \in Pages : Cardinality({c \in DiscoveryCalls(r) : c.pageId = p}) <= 1
    /\ \A p \in Pages :
         Cardinality({path \in DOMAIN tree[r] :
                        tree[r][path].pageId = p /\ tree[r][path].name # CircularName}) <= 1
    /\ \A path \in DOMAIN tree[r] :
         IF tree[r][path].name = CircularName
           THEN /\ tree[r][path].kids = 0
                /\ ~tree[r][path].fetching
                /\ Append(path, 1) \notin DOMAIN tree[r]
                /\ \A c \in DiscoveryCalls(r) : c.path # path
                /\ \E q \in DOMAIN tree[r] :
                     q # path /\ tree[r][q].pageId = tree[r][path].pageId
                              /\ tree[r][q].name # CircularName
           ELSE \E c \in DiscoveryCalls(r) : c.path = path /\ c.pageId = tree[r][path].pageId

C7_Witness ==
  \E r \in RunIds :
    /\ discovery[r] = "returned"
    /\ graph = GDiamond
    /\ <<0, 1, 1>> \in DOMAIN tree[r]
    /\ tree[r][<<0, 1, 1>>].name = CircularName
    /\ tree[r][<<0, 2, 1>>].name = "Gamma"
    /\ Cardinality({c \in DiscoveryCalls(r) : c.pageId = 4}) = 1

NodesAtDepth(r, d) == {path \in DOMAIN tree[r] : DepthOf(path) = d}

\* C8: the counts discoverPages returns are those of the returned tree:
\* totalPages its number of nodes (placeholders included), byDepth[d] its
\* number of nodes at depth d, maxDepth its largest depth; a root with two
\* children at depth limit 1 gives 3 and {0: 1, 1: 2}
C8_CountsMatchTree ==
  \A r \in RunIds :
    discovery[r] = "returned" =>
      /\ pageCount[r].totalPages = Cardinality(DOMAIN tree[r])
      /\ DOMAIN pageCount[r].byDepth = {DepthOf(path) : path \in DOMAIN tree[r]}
      /\ \A d \in DOMAIN pageCount[r].byDepth :
           pageCount[r].byDepth[d] = Cardinality(NodesAtDepth(r, d))
      /\ \A path \in DOMAIN tree[r] : DepthOf(path) <= pageCount[r].maxDepth
      /\ \E path \in DOMAIN tree[r] : DepthOf(path) = pageCount[r].maxDepth
      /\ (graph = GTwoKids /\ depthArg[r] = 1) =>
           /\ pageCount[r].totalPages = 3
           /\ pageCount[r].byDepth = (0 :> 1 @@ 1 :> 2)

C8_Witness ==
  \E r \in RunIds :
    /\ discovery[r] = "returned"
    /\ graph = GTwoKids
    /\ depthArg[r] = 1
    /\ pageCount[r].totalPages = 3

Blocks(r) == result[r].combinedContent
BlockPaths(r) == {Blocks(r)[i].path : i \in 1..Len(Blocks(r))}

\* C9 as stated: when every node of the tree exported successfully the
\* combined content has one block per node, in pre-order
C9_OneBlockPerNode ==
  \A r \in RunIds :
    (phase[r] = "done" /\ Submitting(r) /\ failed[r] = <<>>
       /\ \A path \in DOMAIN tree[r] : outcome[r][path] \in {"exported", "cached"}) =>
      /\ Len(Blocks(r)) = Cardinality(DOMAIN tree[r])
      /\ BlockPaths(r) = DOMAIN tree[r]
      /\ \A i, j \in 1..Len(Blocks(r)) :
           i < j => PreOrderBefore(Blocks(r)[i].path, Blocks(r)[j].path)

\* the pages for which some node of the run ended with content
PagesWithContent(r) ==
  {tree[r][path].pageId : path \in {q \in DOMAIN tree[r] : outcome[r][q] \in {"exported", "cached"}}}

\* C10: the combined content is a function of the tree and of the outcomes
\* alone, whatever the order in which the poll workflows settled: one block
\* for every node whose page has non-empty content, in pre-order
C10_CombinedIndependentOfOrder ==
  \A r \in RunIds :
    (phase[r] = "done" /\ Submitting(r)) =>
      /\ BlockPaths(r) =
           {path \in DOMAIN tree[r] :
              tree[r][path].pageId \in PagesWithContent(r) /\ pageBody[tree[r][path].pageId] # ""}
      /\ \A i, j \in 1..Len(Blocks(r)) :
           i < j => PreOrderBefore(Blocks(r)[i].path, Blocks(r)[j].path)
      /\ \A i \in 1..Len(Blocks(r)) :
           LET b == Blocks(r)[i] IN
             /\ b.text = pageBody[tree[r][b.path].pageId]
             /\ b.name = tree[r][b.path].name
             /\ b.depth = DepthOf(b.path)

\* the workflow of a later node settled before that of an earlier node
C10_Witness ==
  \E r \in RunIds :
    /\ phase[r] = "done" /\ Submitting(r)
    /\ Len(doneOrder[r]) = 3
    /\ doneOrder[r][1] > doneOrder[r][2]
    /\ Len(Blocks(r)) = 3

\* what the run holds for the page of the node at path
Reported(r, path) ==
  IF tree[r][path].pageId \in DOMAIN successful[r]
    THEN successful[r][tree[r][path].pageId] ELSE ""
ExportCallsAt(r, path) == {c \in OpsOf(r, ExportOps) : c.path = path}

\* C11 as stated: a node whose page was cache-valid (isCacheValid) at its
\* submission step gets no BeginExport, GetExportStatus or FetchContent call
\* in that run, and the run holds the cached content for it
C11_CacheValidNoExportCalls ==
  \A r \in RunIds : \A path \in DOMAIN served[r] :
    served[r][path].valid =>
      /\ ExportCallsAt(r, path) = {}
      /\ tree[r][path].pageId \in DOMAIN successful[r]
      /\ Reported(r, path) = served[r][path].content

\* the same for the entries the truthiness tests let through: it holds
\* whenever the cached content is not the empty string
C11_NonEmptyCacheValidNoExportCalls ==
  \A r \in RunIds : \A path \in DOMAIN served[r] :
    (served[r][path].valid /\ served[r][path].content # "") =>
      /\ ExportCallsAt(r, path) = {}
      /\ outcome[r][path] = "cached"
      /\ Reported(r, path) = served[r][path].content

C11_NonEmptyWitness ==
  \E r \in RunIds :
    /\ phase[r] = "done"
    /\ <<0>> \in DOMAIN served[r]
    /\ served[r][<<0>>].valid /\ served[r][<<0>>].content = "# Root"
    /\ Len(Blocks(r)) >= 1

\* a second call made after the first returned with success, with the same
\* depth setting, no page edited, less than five minutes after the service
\* was created
SecondRunUnchanged ==
  /\ phase[1] = "done" /\ phase[2] = "done"
  /\ ~overlap
  /\ IsResult(1) /\ result[1].success
  /\ depthArg[1] = depthArg[2]
  /\ \A p \in Pages : updatedAt[p] \in {NoMarker, 1}
  /\ now < FiveMinutes

C13_RetrySchedule ==
  retry.always =>
    /\ retry.pc # "returned"
    /\ retry.calls <= retry.n + 1
    /\ retry.calls = retry.attempt + 1
    /\ \A i \in 1..Len(retry.delays) : retry.delays[i] = retry.b * (2 ^ (i - 1))
    /\ retry.pc = "waiting" => (retry.attempt < retry.n /\ Len(retry.delays) = retry.attempt + 1)
    /\ retry.pc = "calling" => Len(retry.delays) = retry.attempt
    /\ retry.pc = "thrown" =>
         /\ retry.calls = retry.n + 1
         /\ Len(retry.delays) = retry.n
         /\ retry.thrown = retry.n + 1
         /\ (retry.n = 3 /\ retry.b = 1000) => retry.delays = <<1000, 2000, 4000>>

C13_Witness ==
  /\ retry.always
  /\ retry.pc = "thrown"
  /\ retry.n = 3
  /\ retry.b = 1000
  /\ retry.calls = 4

StatusCallsOf(r, j) ==
  {c \in calls[r] : c.op = "GetExportStatus" /\ c.path = jobs[r][j].path}

\* C14 as stated: once GetExportStatus has reported `failed` for a job the
\* node has failed, and no further GetExportStatus call is made for that job
C14_FailedJobNotPolledAgain ==
  \A r \in RunIds : \A j \in 1..Len(jobs[r]) :
    (remoteJobs[jobs[r][j].exportId].status = "failed" /\ jobs[r][j].st # "queued") =>
      /\ Cardinality(StatusCallsOf(r, j)) <= 1
      /\ jobs[r][j].st \in {"status", "failed"}
      /\ jobs[r][j].st = "failed" => \E i \in FailedAt(r, jobs[r][j].path) :
                                       failed[r][i].error.msg = ExportFailedError

\* the poll budget of every job of every call, as a state predicate
PollBudgetKept ==
  \A r \in RunIds : \A j \in 1..Len(jobs[r]) :
    LET job == jobs[r][j] IN
      /\ job.attempts <= maxAttempts
      /\ \A c \in StatusCallsOf(r, j) : c.n \in 1..maxAttempts
      /\ Cardinality(StatusCallsOf(r, j)) <= maxAttempts
      /\ job.st = "ok" =>
           /\ \E c \in calls[r] : c.op = "FetchContent" /\ c.path = job.path
           /\ job.pageId \in DOMAIN successful[r]
           /\ FailedAt(r, job.path) = {}
      /\ job.st = "failed" =>
           /\ Cardinality(FailedAt(r, job.path)) = 1
           /\ outcome[r][job.path] = "pollFailed"
      /\ (job.attempts = maxAttempts /\ job.st = "status") =>
           ENABLED (PollStatusReturn(r, j))
      /\ phase[r] = "done" => job.st \in {"ok", "failed"}

\* C15: GetExportStatus is called at most 60 times for a job; a job none of
\* whose polls led to fetched content ends as one per-node failure, never as
\* a success, and once a job has ended nothing more is polled for it
C15_PollBudget ==
  [][/\ PollBudgetKept'
     /\ \A r \in RunIds : \A j \in 1..Len(jobs[r]) :
          jobs[r][j].st \in {"ok", "failed"} =>
            /\ jobs'[r][j] = jobs[r][j]
            /\ {c \in calls'[r] : c.path = jobs[r][j].path} =
                 {c \in calls[r] : c.path = jobs[r][j].path}]_vars

C15_Witness ==
  \E r \in RunIds : \E j \in 1..Len(jobs[r]) :
    /\ phase[r] = "done"
    /\ jobs[r][j].st = "failed"
    /\ jobs[r][j].attempts = maxAttempts
    /\ Cardinality(StatusCallsOf(r, j)) = maxAttempts
    /\ remoteJobs[jobs[r][j].exportId].status = "inProgress"
    /\ \E i \in FailedAt(r, jobs[r][j].path) : failed[r][i].error.msg = TimedOutError

Scheduled == {i \in OpIds : limOps[i].st # "none"}
\* the operations that were admitted and have not finished
AdmittedUnfinished == {i \in OpIds : limOps[i].st \in {"running", "executing"}}

\* C16 as stated: between two consecutive reservoir refreshes no more
\* operations of the category are admitted than its reservoir holds, after any
\* sequence of schedule and clearQueue calls
C16_QuotaPerWindow == limAdmitted <= LimitConfig.reservoir

\* the quota is kept as long as clearQueue has not been called
C16_QuotaPerWindowUntilCleared == limGen = 0 => limAdmitted <= LimitConfig.reservoir

\* C17 as stated: the operations of the category that were admitted and have
\* not finished never outnumber its concurrency cap, after any sequence of
\* schedule and clearQueue calls
C17_ConcurrencyCap == Cardinality(AdmittedUnfinished) <= LimitConfig.maxConcurrent

\* the cap is kept as long as clearQueue has not been called, and always by
\* the operations of one limiter
C17_ConcurrencyCapPerLimiter ==
  \A g \in 0..limGen :
    Cardinality(OpsIn(limOps, g, {"running", "executing"})) <= LimitConfig.maxConcurrent

\* C18 as stated: after R + k schedule calls (k >= 0) none of which has
\* finished, getRunningCount reports at most R running operations and
\* getQueuedCount every remaining call
C18_BurstRunningAndQueued ==
  (/\ limGen = 0
   /\ Cardinality(Scheduled) >= LimitConfig.reservoir
   /\ \A i \in Scheduled : limOps[i].st \in {"queued", "running", "executing"}) =>
    /\ getRunningCount <= LimitConfig.reservoir
    /\ getQueuedCount = Cardinality(Scheduled) - getRunningCount

SucceededPaths(r) == {path \in DOMAIN tree[r] : outcome[r][path] \in {"exported", "cached"}}
FailedPaths(r) == {path \in DOMAIN tree[r] : outcome[r][path] \in {"submitFailed", "pollFailed"}}
FailedEntries(r) == result[r].failedPages
PartialFailure(r) ==
  /\ phase[r] = "done" /\ Submitting(r) /\ IsResult(r)
  /\ SucceededPaths(r) # {} /\ FailedPaths(r) # {}

\* what the partial-failure contract asks of a finished run
PartialFailureExact(r) ==
    PartialFailure(r) =>
      /\ BlockPaths(r) = SucceededPaths(r)
      /\ Len(Blocks(r)) = Cardinality(SucceededPaths(r))
      /\ {FailedEntries(r)[i].path : i \in 1..Len(FailedEntries(r))} = FailedPaths(r)
      /\ Len(FailedEntries(r)) = Cardinality(FailedPaths(r))
      /\ \A i \in 1..Len(FailedEntries(r)) :
           FailedEntries(r)[i].pageId = tree[r][FailedEntries(r)[i].path].pageId
      /\ (graph = GChain /\ depthArg[r] = 1 /\ broken = {2}) =>
           /\ result[r].success = FALSE
           /\ result[r].successfulPages = 1
           /\ Len(FailedEntries(r)) = 1
           /\ FailedEntries(r)[1].pageId = 2
           /\ BlockPaths(r) = {RootPath}
           /\ Len(Blocks(r)) = 1
           /\ Blocks(r)[1].text = pageBody[RootPage]

\* C20: when some pages fail and others succeed, the combined content has a
\* block for exactly the nodes that succeeded, none for a failed one, and
\* failedPages has one entry for each failed node and no other; for a root
\* with one child whose BeginExport fails on every attempt the result is
\* success = false, successfulPages = 1, one failedPages entry for the child
\* and a combined content made of the root's block alone
C20_PartialFailure == \A r \in RunIds : PartialFailureExact(r)

\* the same statement for runs in which every downloaded content is non-empty
\* and no two nodes of the tree stand for the same page
C20_PartialFailureNonEmpty ==
  \A r \in RunIds :
    (/\ \A p \in Pages : pageBody[p] # ""
     /\ \A a, b \in DOMAIN tree[r] : tree[r][a].pageId = tree[r][b].pageId => a = b) =>
      PartialFailureExact(r)

C20_NonEmptyWitness ==
  \E r \in RunIds :
    /\ PartialFailure(r)
    /\ graph = GChain /\ depthArg[r] = 1 /\ broken = {2}
    /\ pageBody[RootPage] # ""
    /\ Len(Blocks(r)) = 1

\* the step in which the submission loop of run r looks the node at path up in
\* the job cache: its GetPage has resolved and the content cache gave nothing
JobLookupStep(r, path) ==
  /\ path \notin DOMAIN served[r]
  /\ path \in DOMAIN served'[r]
  /\ getCachedContent(contentCache, tree[r][path].pageId, updatedAt[tree[r][path].pageId], now) = ""
BeginCallsAt(r, path) == {c \in calls[r] : c.op = "BeginExport" /\ c.path = path}

\* C21: a job cache lookup returns the cached export id exactly when the page
\* has an entry submitted at most ten minutes ago (the job is then polled under
\* that id and the cache is left alone); an older entry yields nothing and is
\* deleted; and an entry leaves the cache only in such a lookup
C21_JobCacheLazyExpiry ==
  [][/\ \A r \in RunIds : \A path \in DOMAIN tree[r] :
          JobLookupStep(r, path) =>
            LET p == tree[r][path].pageId IN
              IF p \in DOMAIN exportJobCache /\ now - exportJobCache[p].submittedAt <= TenMinutes
                THEN /\ exportJobCache' = exportJobCache
                     /\ jobs'[r] = Append(jobs[r], NewJob(path, p, exportJobCache[p].exportId,
                                                          updatedAt[p]))
                     /\ BeginCallsAt(r, path)' = {}
                ELSE /\ p \notin DOMAIN exportJobCache'
                     /\ \A q \in DOMAIN exportJobCache \ {p} :
                          q \in DOMAIN exportJobCache' /\ exportJobCache'[q] = exportJobCache[q]
                     /\ jobs'[r] = jobs[r]
                     /\ BeginCallsAt(r, path)' # {}
     /\ \A p \in DOMAIN exportJobCache :
          p \notin DOMAIN exportJobCache' =>
            /\ now - exportJobCache[p].submittedAt > TenMinutes
            /\ \E r \in RunIds : \E path \in DOMAIN tree[r] :
                 JobLookupStep(r, path) /\ tree[r][path].pageId = p]_vars

\* the second run has just deleted the root's job cache entry, written by the
\* first run more than ten minutes ago, and is starting a new export
C21_Witness ==
  /\ graph = GSingle
  /\ phase[1] = "done"
  /\ subPc[2] = "beginExport"
  /\ RootPage \in DOMAIN contentCache
  /\ RootPage \notin DOMAIN exportJobCache
  /\ now > TenMinutes

\* the step in which the submission loop of run r looks the node at path up in
\* the content cache (its GetPage has resolved)
ContentLookupStep(r, path) == path \notin DOMAIN served[r] /\ path \in DOMAIN served'[r]

\* the validity rule of the content cache for page p, as the page is now
ValidByRule(p) ==
  /\ p \in DOMAIN contentCache
  /\ IF updatedAt[p] # NoMarker /\ contentCache[p].pageUpdatedAt # NoMarker
       THEN updatedAt[p] = contentCache[p].pageUpdatedAt
       ELSE now - contentCache[p].fetchedAt < FiveMinutes
ServedFromCacheByRule(r) ==
  \A path \in DOMAIN tree[r] :
    ContentLookupStep(r, path) =>
      (outcome'[r][path] = "cached" <=> ValidByRule(tree[r][path].pageId))

\* C22: a content cache entry is treated as valid (the node is served from
\* it) if and only if the page's marker is present and the same as when the
\* entry was cached or, without a marker, the entry was fetched less than
\* five minutes ago; in every other case the entry is treated as absent
C22_ContentCacheValidity ==
  [][\A r \in RunIds : ServedFromCacheByRule(r)]_vars

\* the same statement for pages whose Markdown is not empty
C22_NonEmptyContentCacheValidity ==
  [][(\A p \in Pages : pageBody[p] # "") => \A r \in RunIds : ServedFromCacheByRule(r)]_vars

\* lookups of the second run that the rule decides each way: a changed marker,
\* and an entry without marker fetched four minutes ago
C22_NonEmptyWitness ==
  /\ graph = GDup /\ phase[1] = "done" /\ phase[2] = "done"
  /\ depthArg[1] = 1 /\ depthArg[2] = 1
  /\ pageBody[RootPage] # ""
  /\ outcome[2][RootPath] = "exported"
  /\ outcome[2][<<0, 1>>] = "cached"
  /\ updatedAt[RootPage] = 2

\* ---- ExportService: the cache of finished exports
\* the call being served reads the cache (its configuration read has resolved
\* with an API key) / writes the cache
SingleReadStep == single.pc = "config" /\ single'.pc \in {"fetch", "begin"}
SingleCacheStep == single.pc = "poll" /\ single'.pc = "fetch"
SingleOps(ops) == {c \in sLog : c.op \in ops}

\* the lifetime of an entry when the link's X-Amz-Expires is a positive decimal
\* number, and five minutes otherwise
IsPositiveNumber(v) ==
  /\ v # <<>>
  /\ \A i \in 1..Len(v) : IsDigit(v[i])
  /\ \E i \in 1..Len(v) : v[i] # "0"
RECURSIVE DecimalValue(_)
DecimalValue(v) ==
  IF v = <<>> THEN 0 ELSE DecimalValue(SubSeq(v, 1, Len(v) - 1)) * 10 + DigitVal(v[Len(v)])
LifetimeOfValidValue(url) ==
  IF url.expires # <<>> /\ IsPositiveNumber(url.expires[1])
    THEN DecimalValue(url.expires[1]) * 1000
    ELSE defaultCacheDuration

\* the lifetime of an entry when an absolute link's X-Amz-Expires starts, after
\* blanks and an optional sign, with decimal digits that form a positive
\* number (whatever follows the digits), and five minutes otherwise
LeadingNumber(v) ==
  LET blanks == CHOOSE k \in 0..Len(v) :
                  /\ \A i \in 1..k : v[i] = " "
                  /\ k < Len(v) => v[k + 1] # " "
      signed == blanks < Len(v) /\ v[blanks + 1] \in {"-", "+"}
      first == IF signed THEN blanks + 2 ELSE blanks + 1
      last == CHOOSE k \in (first - 1)..Len(v) :
                /\ \A i \in first..k : IsDigit(v[i])
                /\ k < Len(v) => ~IsDigit(v[k + 1])
  IN [digits |-> SubSeq(v, first, last), minus |-> signed /\ v[blanks + 1] = "-"]
LifetimeOfLeadingNumber(url) ==
  IF url.parsable /\ url.expires # <<>>
       /\ ~LeadingNumber(url.expires[1]).minus
       /\ DecimalValue(LeadingNumber(url.expires[1]).digits) > 0
    THEN DecimalValue(LeadingNumber(url.expires[1]).digits) * 1000
    ELSE defaultCacheDuration

\* what the cache of finished exports does in every step, for entries that
\* live for Lifetime(link) after they were cached
CachedExportBehaviour(Lifetime(_)) ==
  /\ SingleCacheStep =>
       /\ exportCache'[single.page].downloadUrl = single'.downloadUrl
       /\ exportCache'[single.page].expiresAt = sClock + Lifetime(single'.downloadUrl)
  /\ SingleReadStep =>
       IF single.page \in DOMAIN exportCache /\ sClock < exportCache[single.page].expiresAt
         THEN /\ single'.cached /\ single'.pc = "fetch"
              /\ single'.downloadUrl = exportCache[single.page].downloadUrl
              /\ exportCache' = exportCache
              /\ sLog' = {SingleCall(single.inv, "FetchContent", single.page,
                                     exportCache[single.page].downloadUrl)}
         ELSE /\ ~single'.cached /\ single'.pc = "begin"
              /\ single.page \notin DOMAIN exportCache'
              /\ \A q \in DOMAIN exportCache \ {single.page} :
                   q \in DOMAIN exportCache' /\ exportCache'[q] = exportCache[q]
              /\ sLog' = {SingleCall(single.inv, "BeginExport", single.page, <<>>)}
  /\ single'.cached => SingleOps({"BeginExport", "GetExportStatus"})' = {}

\* C23 as stated: a call of exportPage / exportToClipboard (API key configured)
\* for a page whose cached export has not expired makes no BeginExport or
\* GetExportStatus call and fetches the cached link; an entry expires
\* X-Amz-Expires seconds after it was cached, five minutes after when the link
\* carries no valid positive value; an expired entry is deleted on read and a
\* new export is begun
C23_CachedExportReuse ==
  [][CachedExportBehaviour(LifetimeOfValidValue)]_vars

\* C23 amended: the same, with the lifetime that parseInt reads from the link:
\* the leading decimal number of the parameter of an absolute link when it is
\* positive, five minutes otherwise
C23_CachedExportReuseLeadingNumber ==
  [][CachedExportBehaviour(LifetimeOfLeadingNumber)]_vars

\* the second call was served from an entry whose link carries
\* X-Amz-Expires=2x, one second after the first call cached it
C23_Witness ==
  /\ sUrlShape = [parsable |-> TRUE, expires |-> << <<"2", "x">> >>]
  /\ single.inv = 2 /\ single.pc = "done" /\ single.cached
  /\ single.result = SingleSuccess(1)
  /\ exportCache[single.page].expiresAt = sClock + 1000

\* ---- the submission loop
SubmissionCalls(r) == {c \in calls[r] : c.phase = "submission"}
Settled == {"cached", "queued", "submitFailed", "exported", "pollFailed"}
\* a submission call of run r that was issued and has not been answered: its
\* page's step has not ended, and the step has issued no later call
SubmissionInFlight(r) ==
  {c \in SubmissionCalls(r) :
     /\ outcome[r][c.path] = "pending"
     /\ ~\E d \in SubmissionCalls(r) :
          /\ d.path = c.path /\ d.op = "BeginExport"
          /\ c.op = "GetPage" \/ d.k > c.k}
IndexOf(r, path) == CHOOSE i \in 1..Len(allPages[r]) : allPages[r][i] = path

\* C24: in the submission phase of a run at most one BeginExport call and at
\* most one submission GetPage call is in flight, and while a call of a page
\* is in flight the step of every earlier page of the flat list has ended (it
\* hit the cache, was queued or failed after its retries) and no call was
\* issued yet for a later page
C24_SubmissionSerialized ==
  \A r \in RunIds :
    Submitting(r) =>
      /\ \A op \in {"BeginExport", "GetPage"} :
           Cardinality({c \in SubmissionInFlight(r) : c.op = op}) <= 1
      /\ \A c \in SubmissionInFlight(r) :
           /\ phase[r] = "submitting"
           /\ \A i \in 1..Len(allPages[r]) :
                /\ i < IndexOf(r, c.path) => outcome[r][allPages[r][i]] \in Settled
                /\ i > IndexOf(r, c.path) =>
                     /\ outcome[r][allPages[r][i]] = "pending"
                     /\ ~\E d \in SubmissionCalls(r) : d.path = allPages[r][i]

\* the BeginExport of the second page is in flight after the first page
\* failed on its last retry
C24_Witness ==
  \E r \in RunIds :
    /\ phase[r] = "submitting" /\ subPc[r] = "beginExport" /\ subIdx[r] = 2
    /\ outcome[r][RootPath] = "submitFailed"
    /\ Cardinality({c \in SubmissionCalls(r) : c.op = "BeginExport" /\ c.path = RootPath}) = 4
    /\ \E c \in SubmissionInFlight(r) : c.op = "BeginExport" /\ c.path = allPages[r][2]

\* ---- the order of submission
\* path a comes before path b in the breadth-first order of a tree: a is less
\* deep, or as deep and to the left of b
LeftOf(a, b) ==
  \E i \in 1..Len(a) : a[i] < b[i] /\ \A k \in 1..(i - 1) : a[k] = b[k]
BreadthFirstBefore(a, b) == Len(a) < Len(b) \/ (Len(a) = Len(b) /\ LeftOf(a, b))
IsBreadthFirstList(list, t) ==
  /\ Len(list) = Cardinality(DOMAIN t)
  /\ {list[i] : i \in 1..Len(list)} = DOMAIN t
  /\ \A i, j \in 1..Len(list) : i < j => BreadthFirstBefore(list[i], list[j])
SubmittedPaths(r) == {c.path : c \in {d \in SubmissionCalls(r) : d.op = "GetPage"}}

\* C25: the flat list is the discovered tree in breadth-first order, every node
\* once, and the submission steps are started in that order, each once: the
\* loop index moves by one, to the next node of the list, whose GetPage is the
\* one submission GetPage issued, and the nodes submitted so far are the nodes
\* of the list up to the index
C25_SubmissionBreadthFirst ==
  [][\A r \in RunIds :
       /\ Submitting(r)' =>
            /\ IsBreadthFirstList(allPages'[r], tree'[r])
            /\ SubmittedPaths(r)' = {allPages'[r][i] : i \in 1..subIdx'[r]}
       /\ subIdx'[r] # subIdx[r] =>
            /\ subIdx'[r] = subIdx[r] + 1
            /\ SubmittedPaths(r)' \ SubmittedPaths(r) = {allPages'[r][subIdx'[r]]}]_vars

\* a run went through a tree whose breadth-first order is not its pre-order
C25_Witness ==
  \E r \in RunIds :
    /\ graph = GShared /\ phase[r] = "done" /\ Submitting(r)
    /\ allPages[r] = << <<0>>, <<0, 1>>, <<0, 2>>, <<0, 1, 1>> >>
    /\ subIdx[r] = 4

\* ---- the settle delay
StatusCalls(r) == {c \in calls[r] : c.op = "GetExportStatus"}
SubmissionOver(r) ==
  /\ Submitting(r)
  /\ subIdx[r] = Len(allPages[r])
  /\ \A path \in DOMAIN tree[r] : outcome[r][path] \in Settled
\* a job was queued: it has an export id and no status call was made for it
ToBePolled(r) == {j \in 1..Len(jobs[r]) : jobs[r][j].st = "queued"}

\* C26: no GetExportStatus call is issued in a run before every page of the
\* flat list has finished its submission step and the settle delay is over;
\* the run waits the settle delay once, after the last submission step, and
\* only when some job is to be polled (a run without such a job returns
\* without waiting)
C26_SettleOnceBeforePolling ==
  [][\A r \in RunIds :
       /\ StatusCalls(r)' # {} =>
            /\ SubmissionOver(r)'
            /\ phase'[r] \in {"polling", "done"}
       /\ (phase'[r] = "settling" /\ phase[r] # "settling") =>
            /\ phase[r] = "submitting"
            /\ SubmissionOver(r)'
            /\ ToBePolled(r)' # {}
       /\ phase[r] = "settling" => phase'[r] \in {"settling", "polling"}
       /\ (phase'[r] = "polling" /\ phase[r] # "polling") =>
            /\ phase[r] = "settling"
            /\ StatusCalls(r) = {}
       /\ phase[r] \in {"polling", "done"} => phase'[r] \in {"polling", "done"}
       /\ (phase'[r] = "done" /\ phase[r] = "submitting") => jobs'[r] = <<>>]_vars

\* the run is waiting the settle delay with two jobs to poll, after one page
\* failed in submission
C26_Witness ==
  \E r \in RunIds :
    /\ phase[r] = "settling"
    /\ Cardinality(ToBePolled(r)) = 2
    /\ Len(failed[r]) = 1
    /\ StatusCalls(r) = {}

\* ---- cache writes
\* the steps of run r for the node at path, by what the step did
StepTo(r, path, from, to) ==
  /\ path \in DOMAIN outcome[r] /\ outcome[r][path] = from
  /\ outcome'[r][path] = to
BeginSucceeded(r, path) == StepTo(r, path, "pending", "queued") /\ subPc[r] = "beginExport"
JobReused(r, path) == StepTo(r, path, "pending", "queued") /\ subPc[r] = "getPage"
FetchSucceeded(r, path) == StepTo(r, path, "queued", "exported")
JobAt(r, path) == jobs[r][CHOOSE j \in 1..Len(jobs[r]) : jobs[r][j].path = path]
\* the lazy delete of a stale job cache entry by a lookup is not a write
JobCacheKept ==
  \/ exportJobCache' = exportJobCache
  \/ \E p \in DOMAIN exportJobCache :
       /\ exportJobCache' = MapDelete(exportJobCache, p)
       /\ exportJobCache[p].submittedAt < now - TenMinutes

\* the cache writes of one step: a step of a run in which BeginExport succeeds
\* writes one job cache entry, a step in which the poll and fetch of a node
\* succeed writes one content cache entry, and no other step writes to a cache
\* (not the step of a node served from the content cache, of a node that
\* reuses a cached job id, of a node that fails); a write puts a whole new
\* entry under the node's pageId and leaves all other entries as they were
CacheWriteSteps ==
  /\ \A r \in RunIds : \A path \in DOMAIN tree[r] :
       LET p == tree[r][path].pageId IN
         /\ BeginSucceeded(r, path) =>
              /\ exportJobCache' = MapSet(exportJobCache, p,
                                          [exportId |-> nextExportId, submittedAt |-> now])
              /\ JobAt(r, path)'.exportId = nextExportId
              /\ contentCache' = contentCache
         /\ FetchSucceeded(r, path) =>
              /\ contentCache' = MapSet(contentCache, p,
                                        [content |-> pageBody[p], fetchedAt |-> now,
                                         pageUpdatedAt |-> JobAt(r, path).pageUpdatedAt])
              /\ exportJobCache' = exportJobCache
  /\ (~\E r \in RunIds : \E path \in DOMAIN tree[r] : BeginSucceeded(r, path)) => JobCacheKept
  /\ (~\E r \in RunIds : \E path \in DOMAIN tree[r] : FetchSucceeded(r, path)) =>
       contentCache' = contentCache

\* the nodes of page p whose poll and fetch have completed in run r: each has
\* written the page's content cache entry
ContentWritesOf(r, p) ==
  {path \in DOMAIN outcome[r] : tree[r][path].pageId = p /\ outcome[r][path] = "exported"}

\* C27 as stated: the cache writes are those of CacheWriteSteps, and in one
\* run the content cache entry of a page is written once
C27_OneWritePerPage ==
  [][/\ CacheWriteSteps
     /\ \A r \in RunIds : \A p \in Pages : Cardinality(ContentWritesOf(r, p)') <= 1]_vars

\* C27, amended: one job cache write per successful BeginExport and one
\* content cache write per node whose poll and fetch complete, so a page
\* listed at several nodes is written once for each; no other cache write
C27_CacheWrites == [][CacheWriteSteps]_vars

\* after a first run that exported the root and both nodes of its child (the
\* second node on the job id of the first), the second run has rewritten the
\* root's content cache entry and served the child's nodes from the cache
C27_Witness ==
  /\ graph = GDup /\ phase[1] = "done" /\ phase[2] = "done"
  /\ depthArg[1] = 1 /\ depthArg[2] = 1
  /\ \A path \in DOMAIN outcome[1] : outcome[1][path] = "exported"
  /\ outcome[2][RootPath] = "exported"
  /\ outcome[2][<<0, 1>>] = "cached" /\ outcome[2][<<0, 2>>] = "cached"
  /\ Cardinality({c \in calls[1] : c.op = "BeginExport"}) = 2
  /\ RootPage \in DOMAIN contentCache
  /\ contentCache[RootPage].pageUpdatedAt = 2

\* ---- reuse of a cached job id
\* page p has a job cache entry at most ten minutes old
FreshJobEntry(p) ==
  p \in DOMAIN exportJobCache /\ now - exportJobCache[p].submittedAt <= TenMinutes
\* the node at path of run r is queued without a BeginExport of its own
ReusesJob(r, path) ==
  /\ path \in DOMAIN outcome[r] /\ outcome[r][path] = "queued"
  /\ BeginCallsAt(r, path) = {}

\* C28: a node whose lookup misses the content cache while its page has a job
\* cache entry at most ten minutes old is queued under the cached job id with
\* no BeginExport; no BeginExport is issued for it later either, and when the
\* run starts polling it polls that job id
C28_CachedJobReused ==
  [][\A r \in RunIds : \A path \in DOMAIN tree[r] :
       LET p == tree[r][path].pageId IN
         /\ (JobLookupStep(r, path) /\ FreshJobEntry(p)) =>
              /\ ReusesJob(r, path)'
              /\ JobAt(r, path)'.exportId = exportJobCache[p].exportId
              /\ subPc'[r] # "beginExport"
         /\ ReusesJob(r, path) =>
              /\ BeginCallsAt(r, path)' = {}
              /\ JobAt(r, path)'.exportId = JobAt(r, path).exportId
              /\ (phase[r] = "settling" /\ phase'[r] = "polling") =>
                   /\ JobAt(r, path)'.st = "status"
                   /\ StatusCall(JobAt(r, path), 1) \in calls'[r]]_vars

\* the second run found the root edited and its job cache entry, written by
\* the first run, still fresh: it exported the root by polling that job and
\* called no BeginExport
C28_Witness ==
  /\ graph = GSingle /\ phase[1] = "done" /\ phase[2] = "done"
  /\ outcome[1][RootPath] = "exported"
  /\ outcome[2][RootPath] = "exported"
  /\ BeginCallsAt(1, RootPath) # {}
  /\ BeginCallsAt(2, RootPath) = {}
  /\ StatusCalls(2) # {}
  /\ jobs[2][1].exportId = jobs[1][1].exportId

\* ---- a download link that cannot be fetched
FetchCallsOf(r, j) ==
  {c \in calls[r] : c.op = "FetchContent" /\ c.path = jobs[r][j].path}
\* job j of run r is complete at the remote and its download link fails on
\* every fetch
LinkAlwaysFails(r, j) ==
  /\ remoteJobs[jobs[r][j].exportId].status = "complete"
  /\ remoteJobs[jobs[r][j].exportId].link = "bad"

\* C29 as stated: a job that reports complete and whose content cannot be
\* fetched on any attempt of the retry policy is fetched at most 4 times, is
\* not polled again after a fetch, writes no content cache entry and ends as
\* a failed node
C29_FetchFailureFinal ==
  \A r \in RunIds : \A j \in 1..Len(jobs[r]) :
    LinkAlwaysFails(r, j) =>
      /\ Cardinality(FetchCallsOf(r, j)) <= maxRetries + 1
      /\ \A f \in FetchCallsOf(r, j) : \A s \in StatusCallsOf(r, j) : s.n <= f.n
      /\ jobs[r][j].pageId \notin DOMAIN contentCache
      /\ phase[r] = "done" =>
           /\ jobs[r][j].st = "failed"
           /\ \E i \in FailedAt(r, jobs[r][j].path) : failed[r][i].error.msg = FetchFailedError

\* what does hold of such a job: every poll is followed by at most 4 fetches,
\* nothing is cached, and the node fails with the fetch error once the poll
\* budget is spent
C29_FetchFailureEndsFailed ==
  \A r \in RunIds : \A j \in 1..Len(jobs[r]) :
    LinkAlwaysFails(r, j) =>
      /\ \A n \in 1..maxAttempts :
           Cardinality({f \in FetchCallsOf(r, j) : f.n = n}) <= maxRetries + 1
      /\ jobs[r][j].pageId \notin DOMAIN contentCache
      /\ phase[r] = "done" =>
           /\ jobs[r][j].st = "failed"
           /\ jobs[r][j].attempts = maxAttempts
           /\ Cardinality(FetchCallsOf(r, j)) = maxAttempts * (maxRetries + 1)
           /\ \E i \in FailedAt(r, jobs[r][j].path) : failed[r][i].error.msg = FetchFailedError

\* ---- the submission budget
BeginCallsFor(r, p) == {c \in calls[r] : c.op = "BeginExport" /\ c.pageId = p}
StatusCallsAt(r, path) == {c \in calls[r] : c.op = "GetExportStatus" /\ c.path = path}
\* the node at path of run r: BeginExport is called at most 4 times for it,
\* as attempts 0..3; when it failed in submission after BeginExport was tried,
\* all 4 attempts were made, it has one entry in failed with the submit prefix,
\* no job and no GetExportStatus call
SubmitBudgetKept(r, path) ==
  /\ Cardinality(BeginCallsAt(r, path)) <= maxRetries + 1
  /\ \A c \in BeginCallsAt(r, path) : c.k \in 0..maxRetries
  /\ (/\ path \in DOMAIN outcome[r] /\ outcome[r][path] = "submitFailed"
      /\ BeginCallsAt(r, path) # {}) =>
       /\ Cardinality(BeginCallsAt(r, path)) = maxRetries + 1
       /\ Cardinality(FailedAt(r, path)) = 1
       /\ \A i \in FailedAt(r, path) :
            /\ failed[r][i].error.prefix = SubmitPrefix
            /\ failed[r][i].pageId = tree[r][path].pageId
       /\ JobsAt(r, path) = {}
       /\ StatusCallsAt(r, path) = {}
\* a step in which a BeginExport of the node at path fails (it is tried again
\* or the node fails) writes to no cache
FailedAttemptWritesNothing(r, path) ==
  (/\ path \in DOMAIN outcome[r] /\ outcome[r][path] = "pending"
   /\ outcome'[r][path] \in {"pending", "submitFailed"}
   /\ BeginCallsAt(r, path) # {}) =>
     /\ exportJobCache' = exportJobCache
     /\ contentCache' = contentCache

\* C30 as stated: BeginExport is called at most 4 times per page in a run,
\* and a page all of whose attempts failed is recorded in failed with an error
\* starting 'Failed to submit: ', gets no job cache entry and is never polled
C30_SubmitBudgetPerPage ==
  [][\A r \in RunIds :
       /\ \A p \in Pages : Cardinality(BeginCallsFor(r, p)') <= maxRetries + 1
       /\ \A path \in DOMAIN tree'[r] : SubmitBudgetKept(r, path)'
       /\ \A path \in DOMAIN tree[r] : FailedAttemptWritesNothing(r, path)]_vars

NodesOfPage(r, p) == {path \in DOMAIN tree[r] : tree[r][path].pageId = p}

\* C30, amended: the budget of 4 BeginExport calls is that of a node of the
\* flattened hierarchy, so a page listed at several nodes is tried at each
C30_SubmitBudgetPerNode ==
  [][\A r \in RunIds :
       /\ \A p \in Pages :
            Cardinality(BeginCallsFor(r, p)') <= (maxRetries + 1) * Cardinality(NodesOfPage(r, p)')
       /\ \A path \in DOMAIN tree'[r] : SubmitBudgetKept(r, path)'
       /\ \A path \in DOMAIN tree[r] : FailedAttemptWritesNothing(r, path)]_vars

\* a page listed twice cannot be exported: each of its two nodes has used up
\* its 4 attempts and failed, and the root was exported
C30_Witness ==
  /\ graph = GDup /\ phase[1] = "done" /\ broken = {2}
  /\ outcome[1][RootPath] = "exported"
  /\ outcome[1][<<0, 1>>] = "submitFailed" /\ outcome[1][<<0, 2>>] = "submitFailed"
  /\ Cardinality(BeginCallsAt(1, <<0, 1>>)) = maxRetries + 1
  /\ Cardinality(BeginCallsFor(1, 2)) = 2 * (maxRetries + 1)
  /\ Len(failed[1]) = 2
  /\ 2 \notin DOMAIN exportJobCache

\* ---- the limiter does not retry
\* how far a scheduled operation has come
OpRank(st) ==
  CASE st = "none" -> 0 [] st = "queued" -> 1 [] st = "running" -> 2
    [] st = "executing" -> 3 [] OTHER -> 4
OpSettled == {"resolved", "failed", "dropped"}
\* the waiting operation the current limiter would launch next
HeadOfQueue(i) ==
  /\ limOps[i] = [st |-> "queued", gen |-> limGen]
  /\ \A k \in OpsIn(limOps, limGen, {"queued"}) : i <= k

\* C31: the function of a scheduled operation is invoked at most once (an
\* operation only moves forward: queued, launched, invoked, settled, and its
\* function is invoked only out of the launched state); when the function
\* fails the promise of schedule rejects and the operation is never queued,
\* launched or invoked again; and operations that have failed hold no slot:
\* the next waiting operation is launched as soon as fewer than maxConcurrent
\* operations are in progress and the reservoir is not empty
C31_NoRetryByLimiter ==
  [][\A i \in OpIds :
       /\ limOps'[i] # limOps[i] =>
            /\ OpRank(limOps'[i].st) > OpRank(limOps[i].st)
            /\ limOps[i].st # "none" => limOps'[i].gen = limOps[i].gen
       /\ (limOps'[i].st = "executing" /\ limOps[i].st # "executing") =>
            limOps[i].st = "running"
       /\ (limOps[i].st = "executing" /\ limOps'[i].st # "executing") =>
            limOps'[i].st \in {"resolved", "failed"}
       /\ limOps[i].st \in OpSettled => limOps'[i] = limOps[i]
       /\ (/\ HeadOfQueue(i)
            /\ Cardinality(OpsIn(limOps, limGen, {"running", "executing"})) <
                 LimitConfig.maxConcurrent
            /\ limReservoir > 0) => ENABLED Launch(i)]_vars

\* with one operation at a time, the first operation failed and the second,
\* launched after that, ran and resolved
C31_Witness ==
  /\ limCategory = "writeContent" /\ limGen = 0
  /\ limOps[1].st = "failed"
  /\ limOps[2].st = "resolved"

\* ---- progress events
Events(r) == progress[r].events
PhaseRank(state) ==
  CASE state = "discovering" -> 1 [] state = "exporting" -> 2
    [] state = "combining" -> 3 [] state = "complete" -> 4
EventsIn(r, state) == {i \in 1..Len(Events(r)) : Events(r)[i].state = state}
\* the run returned what combining produced (it did not abort)
ReturnedCombined(r) ==
  /\ mode = "export" /\ phase[r] = "done"
  /\ discovery[r] = "returned" /\ allPages[r] # <<>>
\* no event of run r goes back to an earlier phase, and complete is reported
\* at most once, as the last event
PhasesInOrder(r) ==
  /\ \A i, k \in 1..Len(Events(r)) :
       i < k => PhaseRank(Events(r)[i].state) <= PhaseRank(Events(r)[k].state)
  /\ Cardinality(EventsIn(r, "complete")) <= 1
  /\ EventsIn(r, "complete") \subseteq {Len(Events(r))}

\* C32: the progress events of a run are in phase order, complete is
\* reported at most once and nothing after it; a run that does not abort has
\* reported discovering (once or more), then exporting (once or more), then
\* combining once, then complete once, by the time it returns, and a run
\* that has not returned has not reported complete
C32_ProgressPhaseOrder ==
  [][\A r \in RunIds :
       /\ PhasesInOrder(r)'
       /\ EventsIn(r, "complete") # {} => progress'[r] = progress[r]
       /\ ReturnedCombined(r)' =>
            /\ EventsIn(r, "discovering")' # {}
            /\ EventsIn(r, "exporting")' # {}
            /\ Cardinality(EventsIn(r, "combining")') = 1
            /\ Cardinality(EventsIn(r, "complete")') = 1
       /\ phase'[r] # "done" => EventsIn(r, "complete")' = {}]_vars

\* a run over three pages has returned: two discovering events, the first
\* exporting event and one for each page submitted and each job settled, then
\* combining and complete
C32_Witness ==
  /\ graph = GTwoKids /\ depthArg[1] = 1 /\ ReturnedCombined(1)
  /\ Len(jobs[1]) = 3
  /\ Len(Events(1)) = 2 + 1 + 3 + 3 + 2
  /\ Events(1)[Len(Events(1))].state = "complete"

\* ---- the counter of the exporting events
IsExporting(e) == e.state = "exporting"
\* pagesProcessed of the exporting events of run r, in the order reported
Processed(r) ==
  LET ex == SelectSeq(Events(r), IsExporting)
  IN [i \in 1..Len(ex) |-> ex[i].pagesProcessed]
\* the pages run r has served from the content cache
CachedPagesOf(r) ==
  {tree[r][path].pageId : path \in {q \in DOMAIN outcome[r] : outcome[r][q] = "cached"}}

\* C39 as stated: pagesProcessed of the exporting events of a run never
\* decreases, across submission and polling
C39_ProcessedNeverDecreases ==
  \A r \in RunIds : \A i, k \in 1..Len(Processed(r)) :
    i < k => Processed(r)[i] <= Processed(r)[k]

\* C39, amended: the first exporting event reports 0, the event after the
\* i-th page of the submission loop reports i (pages submitted), and the event
\* after the k-th job settled reports the number of pages served from the
\* cache plus k (pages completed): the counter never decreases within the
\* submission phase nor within the polling phase, and starts again from the
\* cached pages when polling begins
C39_ProcessedPerPhase ==
  \A r \in RunIds :
    LET n == progress[r].submitted IN
      /\ Len(Processed(r)) = IF Events(r) = <<>> \/ discovery[r] # "returned" THEN 0
                              ELSE 1 + n + Len(doneOrder[r])
      /\ \A i \in 1..Len(Processed(r)) :
           Processed(r)[i] = IF i <= 1 + n THEN i - 1
                             ELSE Cardinality(CachedPagesOf(r)) + (i - 1 - n)
      /\ n = Cardinality({q \in DOMAIN outcome[r] : outcome[r][q] \in Settled})
      /\ Len(Processed(r)) > 1 + n => n = Len(allPages[r])

\* a run over three pages, none cached, has returned: the counter went up to
\* 3 during submission and again from 1 to 3 during polling
C39_Witness ==
  /\ graph = GTwoKids /\ depthArg[1] = 1 /\ ReturnedCombined(1)
  /\ Processed(1) = <<0, 1, 2, 3, 1, 2, 3>>

\* ---- the shape of the discovered tree
ParentOf(path) == SubSeq(path, 1, Len(path) - 1)
IndexIn(path) == path[Len(path)]
\* the child references the node at path of run r recursed into: those of its
\* page when its GetPage has returned and it is above the depth limit, none
\* otherwise (a placeholder, a node whose GetPage is pending or was rejected)
RefsOf(r, path) ==
  LET node == tree[r][path] IN
    IF node.name \notin {CircularName, ""} /\ shouldRecurse(depthArg[r], node.depth)
      THEN graph[node.pageId] ELSE <<>>

\* C33: in the tree of discoverPages the root has depth 0 and path '0'; every
\* other node is the i-th child of the node whose path is its own without the
\* last index, stands for the i-th child reference of that node's page and is
\* one level deeper; and a node whose GetPage has returned has exactly one
\* child for each of its child references, in reference order.  This holds of
\* the tree while it is built and so of every tree that is returned
C33_TreeShape ==
  \A r \in RunIds : \A path \in DOMAIN tree[r] :
    /\ RootPath \in DOMAIN tree[r]
    /\ tree[r][RootPath].depth = 0 /\ tree[r][RootPath].pageId = RootPage
    /\ path[1] = 0 /\ tree[r][path].depth = Len(path) - 1
    /\ path # RootPath =>
         /\ ParentOf(path) \in DOMAIN tree[r]
         /\ tree[r][path].depth = tree[r][ParentOf(path)].depth + 1
         /\ IndexIn(path) \in 1..Len(RefsOf(r, ParentOf(path)))
         /\ tree[r][path].pageId = RefsOf(r, ParentOf(path))[IndexIn(path)]
    /\ tree[r][path].kids = Len(RefsOf(r, path))
    /\ \A i \in 1..Len(RefsOf(r, path)) :
         /\ Append(path, i) \in DOMAIN tree[r]
         /\ tree[r][Append(path, i)].pageId = RefsOf(r, path)[i]

\* a tree with a back reference was returned: pages 2 and 3 are the first and
\* second child of the root, and the reference from page 4 to page 3 is the
\* second child of page 4's node, three levels down
C33_Witness ==
  \E r \in RunIds :
    /\ graph = GBack /\ discovery[r] = "returned" /\ depthArg[r] = Unlimited
    /\ tree[r][<<0, 1>>].pageId = 2 /\ tree[r][<<0, 2>>].pageId = 3
    /\ tree[r][<<0, 2>>].name # CircularName
    /\ tree[r][<<0, 1, 1, 2>>].name = CircularName
    /\ tree[r][<<0, 1, 1, 2>>].pageId = 3

\* ---- the tree and the order of the GetPage responses
\* the tree discoverPages builds when every GetPage is answered in the order
\* the calls were issued
RECURSIVE InIssueOrder(_, _, _)
InIssueOrder(s, pending, d) ==
  IF pending = <<>> THEN s.tree
  ELSE LET path == Head(pending)
           node == s.tree[path]
           refs == IF shouldRecurse(d, node.depth) THEN graph[node.pageId] ELSE <<>>
           self == [node EXCEPT !.name = PageName(node.pageId), !.kids = Len(refs),
                                !.fetching = FALSE]
           s2 == EnterChildren([tree |-> MapSet(s.tree, path, self), visited |-> s.visited,
                                calls |-> {}], path, refs, node.depth, 1)
           issued == SelectSeq(ChildPaths(s2.tree, path), LAMBDA q : s2.tree[q].fetching)
       IN InIssueOrder(s2, Tail(pending) \o issued, d)
TreeInIssueOrder(d) ==
  InIssueOrder([tree |-> MapSet(EmptyMap, RootPath, BuildHierarchyEnter({}, RootPage, 0)),
                visited |-> {RootPage}, calls |-> {}], <<RootPath>>, d)

\* C38 as stated: the tree discoverPages returns (which occurrence of a page
\* is the real node with its subtree and which the '(Circular Reference)'
\* leaf) does not depend on the order in which the GetPage responses arrive:
\* it is the tree that results when they arrive in the order of the calls
C38_TreeIndependentOfOrder ==
  \A r \in RunIds : discovery[r] = "returned" => tree[r] = TreeInIssueOrder(depthArg[r])

\* the same statement for the page graphs other than the diamond, in which
\* two siblings whose GetPage calls are pending together refer to one page
C38_TreeIndependentOfOrderNoDiamond ==
  \A r \in RunIds :
    (discovery[r] = "returned" /\ graph # GDiamond) => tree[r] = TreeInIssueOrder(depthArg[r])

\* ---- overlapping runs
\* the export jobs the remote has started for page p, by id (ids are given
\* in the order the BeginExport calls return)
RemoteJobsOf(p) == {id \in 1..Len(remoteJobs) : remoteJobs[id].pageId = p}
\* run r is waiting for the answer to a BeginExport of page p
BeginPending(r, p) ==
  /\ phase[r] = "submitting" /\ subPc[r] = "beginExport"
  /\ tree[r][CurrentPath(r)].pageId = p

\* C34: a lookup that finds neither content nor a job id cached for its page
\* calls BeginExport, also while another run is waiting for its own
\* BeginExport of the same page; every BeginExport that returns starts a job
\* of its own and writes its id to the job cache, so the cache holds the id
\* of the submission that returned last
C34_SubmissionNotDeduplicated ==
  [][/\ \A r \in RunIds : \A path \in DOMAIN tree[r] :
          LET p == tree[r][path].pageId IN
            /\ (JobLookupStep(r, path) /\ p \notin DOMAIN exportJobCache) =>
                 /\ BeginPending(r, p)'
                 /\ BeginCallsAt(r, path)' # {}
            /\ BeginSucceeded(r, path) =>
                 /\ JobAt(r, path)'.exportId \notin RemoteJobsOf(p)
                 /\ exportJobCache'[p].exportId = JobAt(r, path)'.exportId
     /\ \A p \in DOMAIN exportJobCache' :
          \A id \in RemoteJobsOf(p)' : id <= exportJobCache'[p].exportId]_vars

\* two overlapping runs both found nothing cached for the root and both
\* called BeginExport; the submission of the first run returned after that of
\* the second, and the job cache holds its id
C34_Witness ==
  /\ overlap /\ graph = GSingle
  /\ BeginCallsAt(1, RootPath) # {} /\ BeginCallsAt(2, RootPath) # {}
  /\ Len(jobs[1]) = 1 /\ Len(jobs[2]) = 1
  /\ jobs[2][1].exportId = 1 /\ jobs[1][1].exportId = 2
  /\ exportJobCache[RootPage].exportId = 2

\* ---- the counts of a result
\* no two nodes of the tree of run r stand for the same page
OneNodePerPage(r) ==
  \A a, b \in DOMAIN tree[r] : tree[r][a].pageId = tree[r][b].pageId => a = b
CountsAddUp(r) ==
  result[r].successfulPages + Len(result[r].failedPages) = result[r].totalPages

\* C35: in every result returned from the non-abort path the succeeded and the
\* failed pages add up to totalPages, also when the tree holds placeholder
\* nodes that repeat a pageId
C35_CountsAddUp ==
  \A r \in RunIds : ReturnedCombined(r) => CountsAddUp(r)

\* the same statement for trees with one node for each page
C35_CountsAddUpOneNodePerPage ==
  \A r \in RunIds : (ReturnedCombined(r) /\ OneNodePerPage(r)) => CountsAddUp(r)

\* ---- the marker of a content cache entry and the job behind it
\* C36: the content that a poll and fetch writes to the content cache comes
\* from a job submitted when the page already had the marker the entry is
\* stamped with: a job submitted before the page changed never fills an entry
\* stamped with the newer marker
C36_EntryFromJobOfItsMarker ==
  [][\A r \in RunIds : \A path \in DOMAIN tree[r] :
       LET p == tree[r][path].pageId IN
         (FetchSucceeded(r, path) /\ contentCache'[p].pageUpdatedAt # NoMarker) =>
           remoteJobs[JobAt(r, path).exportId].pageUpdatedAt >= contentCache'[p].pageUpdatedAt]_vars

\* the same statement for the jobs that the run submitted itself
C36_EntryFromOwnJobOfItsMarker ==
  [][\A r \in RunIds : \A path \in DOMAIN tree[r] :
       LET p == tree[r][path].pageId IN
         (/\ FetchSucceeded(r, path) /\ BeginCallsAt(r, path) # {}
          /\ contentCache'[p].pageUpdatedAt # NoMarker) =>
           remoteJobs[JobAt(r, path).exportId].pageUpdatedAt >= contentCache'[p].pageUpdatedAt]_vars

\* ---- the job cache entry of a job that has ended
\* the poll and fetch of the node at path ends in this step
PollEnded(r, path) ==
  StepTo(r, path, "queued", "exported") \/ StepTo(r, path, "queued", "pollFailed")
\* a job of run r ended in failure: reported by the remote, or timed out
JobFailedIn(r, id) ==
  \E j \in 1..Len(jobs[r]) :
    /\ jobs[r][j].exportId = id /\ jobs[r][j].st = "failed"
    /\ remoteJobs[id].status \in {"failed", "inProgress"}

\* C37: the end of a node's poll and fetch, with content or with a failure,
\* leaves the job cache as it is; a lookup that misses the content cache while
\* the entry is at most ten minutes old queues the node under the cached id
\* without a BeginExport and leaves the entry in place, whatever became of
\* that job before, and the run then polls that id
C37_EndedJobStaysCached ==
  [][\A r \in RunIds : \A path \in DOMAIN tree[r] :
       LET p == tree[r][path].pageId IN
         /\ PollEnded(r, path) => exportJobCache' = exportJobCache
         /\ (JobLookupStep(r, path) /\ FreshJobEntry(p)) =>
              /\ exportJobCache' = exportJobCache
              /\ BeginCallsAt(r, path)' = {}
              /\ ~BeginPending(r, p)'
              /\ JobAt(r, path)'.exportId = exportJobCache[p].exportId
         /\ (/\ path \in DOMAIN outcome[r] /\ outcome[r][path] = "queued"
             /\ phase[r] = "settling" /\ phase'[r] = "polling") =>
              StatusCall(JobAt(r, path), 1) \in calls'[r]]_vars

\* the job of the first run ended in failure; the second run, started while
\* the entry was still fresh, polled the same job with no BeginExport and
\* failed on it as well, and the entry is still there
C37_Witness ==
  /\ graph = GSingle /\ phase[1] = "done" /\ phase[2] = "done"
  /\ BeginCallsAt(1, RootPath) # {} /\ BeginCallsAt(2, RootPath) = {}
  /\ outcome[1][RootPath] = "pollFailed" /\ outcome[2][RootPath] = "pollFailed"
  /\ JobFailedIn(1, 1) /\ JobFailedIn(2, 1)
  /\ remoteJobs[1].status = "failed"
  /\ StatusCalls(2) # {}
  /\ RootPage \in DOMAIN exportJobCache /\ exportJobCache[RootPage].exportId = 1

\* the same with a job that never finished: both runs timed out on it
C37_WitnessTimeout ==
  /\ graph = GSingle /\ phase[1] = "done" /\ phase[2] = "done"
  /\ BeginCallsAt(2, RootPath) = {}
  /\ JobFailedIn(1, 1) /\ JobFailedIn(2, 1)
  /\ remoteJobs[1].status = "inProgress"
  /\ exportJobCache[RootPage].exportId = 1

\* ---- termination of exportNestedPages
\* the call of run r is in flight
InFlight(r) == phase[r] \notin {"idle", "done"}
\* the call of run r has returned a CombinedExportResult
ReturnedResult(r) == phase[r] = "done" /\ result[r].kind = "result"

\* C40: when every remote call and timer eventually completes, every
\* exportNestedPages call that is in flight eventually returns a
\* CombinedExportResult: it does not reject, and no node is polled for ever
C40_ExportTerminates ==
  \A r \in RunIds : InFlight(r) ~> ReturnedResult(r)

\* a run returned after one job was polled to the last attempt and another
\* was exported
C40_Witness ==
  \E r \in RunIds :
    /\ ReturnedResult(r) /\ graph = GTwoKids
    /\ \E j \in 1..Len(jobs[r]) : jobs[r][j].st = "failed" /\ jobs[r][j].attempts = maxAttempts
    /\ \E j \in 1..Len(jobs[r]) : jobs[r][j].st = "ok"
    /\ Len(result[r].failedPages) = 1
====
